---- MODULE Spec2Model ----
(***************************************************************************)
(* Event-sourced AR ledger and notification queue of Payment-Trackers.     *)
(*                                                                         *)
(* State: the three collections (events, ar_state, alert_queue), the       *)
(* calendar day the workers see, and the commands that have loaded a       *)
(* snapshot but not yet written it.  One action per command / worker run.  *)
(*                                                                         *)
(* Naming: the billable entity is called customer_id in CreateARDTO and    *)
(* home_id in the event payload, the snapshot and every caller; the model  *)
(* uses home_id for that one field.                                        *)
(***************************************************************************)
EXTENDS Integers, Sequences, FiniteSets, TLC

(***************************************************************************)
(* Bounds of the model                                                     *)
(***************************************************************************)
MaxAR == 2
MaxEvents == 4
MaxAlerts == 2

(***************************************************************************)
(* Calendar dates: <<year, month, day>> at local midnight                  *)
(***************************************************************************)
NoDate == <<0, 0, 0>>

IsLeap(y) == (y % 4 = 0 /\ y % 100 # 0) \/ y % 400 = 0

DaysInMonth(y, m) ==
  IF m = 2 THEN (IF IsLeap(y) THEN 29 ELSE 28)
  ELSE IF m \in {4, 6, 9, 11} THEN 30 ELSE 31

RECURSIVE DaysBeforeMonth(_, _)
DaysBeforeMonth(y, m) ==
  IF m <= 1 THEN 0 ELSE DaysBeforeMonth(y, m - 1) + DaysInMonth(y, m - 1)

\* Date.getTime() / (1000*60*60*24) for a date at midnight: a day count
DayNum(date) ==
  LET y == date[1]
  IN  365 * y + ((y - 1) \div 4) - ((y - 1) \div 100) + ((y - 1) \div 400)
        + DaysBeforeMonth(y, date[2]) + date[3]

\* Date.setMonth(getMonth() + months): a day past the end of the target
\* month rolls over into the following month
setMonth(date, months) ==
  LET total == date[1] * 12 + (date[2] - 1) + months
      y     == total \div 12
      m     == (total % 12) + 1
      dim   == DaysInMonth(y, m)
  IN  IF date[3] <= dim THEN <<y, m, date[3]>>
      ELSE IF m = 12 THEN <<y + 1, 1, date[3] - dim>>
      ELSE <<y, m + 1, date[3] - dim>>

\* Date.setDate(0): the last day of the previous month
setDateZero(date) ==
  IF date[2] = 1 THEN <<date[1] - 1, 12, 31>>
  ELSE <<date[1], date[2] - 1, DaysInMonth(date[1], date[2] - 1)>>

\* Date.setDate(getDate() + n) for a small n
setDatePlus(date, n) ==
  LET dim == DaysInMonth(date[1], date[2])
  IN  IF date[3] + n <= dim THEN <<date[1], date[2], date[3] + n>>
      ELSE IF date[2] = 12 THEN <<date[1] + 1, 1, date[3] + n - dim>>
      ELSE <<date[1], date[2] + 1, date[3] + n - dim>>

addMonths(date, months) ==
  LET result == setMonth(date, months)
  IN  IF result[3] # date[3] THEN setDateZero(result) ELSE result

toLocalMidnight(date) == date

DateLT(d1, d2) == DayNum(d1) < DayNum(d2)

(***************************************************************************)
(* Inputs                                                                  *)
(***************************************************************************)
Statuses == {"PENDING", "OVERDUE", "PAID", "WRITTEN_OFF"}
Homes == {"B101"}
NoChat == "none"
InvoiceDate == <<2025, 1, 1>>
DueDates == {<<2025, 1, 31>>, <<2025, 2, 5>>, <<2025, 2, 8>>}
Days == << <<2025, 2, 5>>, <<2025, 2, 7>> >>

NoAR == [ar_id |-> 0]
NoKey == <<>>

VARIABLES
  events,      \* the events collection, in insertion order
  ar_state,    \* the ar_state collection: ar_state[i] is the snapshot of AR i
  alerts,      \* the alert_queue collection, in insertion order
  requested,   \* requested[i]: the dedup_key queueAlert was called with for alerts[i]
  dayIx,       \* index into Days of the calendar day the workers see
  inflight,    \* per caller: the command that has loaded its snapshot
  futureArMonthsAhead,  \* the worker's configured horizon of pre-created ARs
  clock,       \* the wall clock of the delivery loop, in minutes
  worker,      \* the delivery loop: its batch and its position in it
  channel,     \* alert_id of every message the channel accepted, in order
  last         \* the last completed operation and its outcome

delivery == <<clock, worker, channel>>

vars == <<events, ar_state, alerts, requested, dayIx, inflight,
          futureArMonthsAhead, delivery, last>>

today == Days[dayIx]

ARIds == 1..Len(ar_state)

(***************************************************************************)
(* Event store                                                             *)
(***************************************************************************)
\* a store that overwrites the stored event of the same identity
appendUpsert(log, event) ==
  IF \E i \in 1..Len(log) : log[i].event_id = event.event_id
  THEN [i \in 1..Len(log) |->
          IF log[i].event_id = event.event_id THEN event ELSE log[i]]
  ELSE Append(log, event)

\* insertOne under the unique index on event_id; E11000 is swallowed
append(log, event) ==
  IF \E i \in 1..Len(log) : log[i].event_id = event.event_id
  THEN log
  ELSE Append(log, event)

\* find({ar_id}).sort({timestamp: 1}); the log is in timestamp order
getEventsForAR(log, ar_id) == SelectSeq(log, LAMBDA e : e.ar_id = ar_id)

\* uuidv4() and new Date(): a fresh identity and the next instant
NewEvent(log, ar_id, event_type, payload) ==
  [event_id |-> Len(log) + 1, ar_id |-> ar_id, event_type |-> event_type,
   timestamp |-> Len(log) + 1, payload |-> payload]

(***************************************************************************)
(* Replay                                                                  *)
(***************************************************************************)
initializeFromCreatedEvent(event) ==
  [ar_id |-> event.ar_id,
   home_id |-> event.payload.home_id,
   customer_name |-> event.payload.customer_name,
   amount |-> event.payload.amount,
   current_status |-> "PENDING",
   invoice_date |-> event.payload.invoice_date,
   due_date |-> event.payload.due_date,
   paid_date |-> NoDate,
   customer_chat_id |-> event.payload.customer_chat_id,
   manager_chat_id |-> event.payload.manager_chat_id,
   assigned_sales_id |-> event.payload.assigned_sales_id,
   last_event_id |-> event.event_id,
   last_event_at |-> event.timestamp,
   event_count |-> 1,
   version |-> 1]

\* a fold that passes over the kinds it does not know
applyEventKnownOnly(state, event) ==
  LET updated == [state EXCEPT !.last_event_id = event.event_id,
                               !.last_event_at = event.timestamp,
                               !.event_count = state.event_count + 1]
  IN  CASE event.event_type = "STATUS_CHANGED" ->
             [updated EXCEPT !.current_status = event.payload.new_status]
        [] event.event_type = "PAYMENT_VERIFIED" ->
             [updated EXCEPT !.current_status = "PAID",
                             !.paid_date = event.payload.payment_date]
        [] event.event_type = "DUE_DATE_CHANGED" ->
             [updated EXCEPT !.due_date = event.payload.new_due_date]
        [] event.event_type \in {"FOLLOW_UP_LOGGED", "AR_CREATED"} -> updated
        [] OTHER -> state

applyEvent(state, event) ==
  LET updated == [state EXCEPT !.last_event_id = event.event_id,
                               !.last_event_at = event.timestamp,
                               !.event_count = state.event_count + 1]
  IN  CASE event.event_type = "STATUS_CHANGED" ->
             [updated EXCEPT !.current_status = event.payload.new_status]
        [] event.event_type = "PAYMENT_VERIFIED" ->
             [updated EXCEPT !.current_status = "PAID",
                             !.paid_date = event.payload.payment_date]
        [] event.event_type = "DUE_DATE_CHANGED" ->
             [updated EXCEPT !.due_date = event.payload.new_due_date]
        [] OTHER -> updated

RECURSIVE replayFrom(_, _, _)
replayFrom(state, evs, i) ==
  IF i > Len(evs) THEN state
  ELSE replayFrom(applyEvent(state, evs[i]), evs, i + 1)

\* a replay that accepts any first event
replayEventsAnyFirst(evs) ==
  IF Len(evs) = 0 THEN NoAR
  ELSE IF evs[1].event_type # "AR_CREATED"
  THEN [NoAR EXCEPT !.ar_id = evs[1].ar_id]
  ELSE replayFrom(initializeFromCreatedEvent(evs[1]), evs, 2)

\* the two throws are modelled by the value NoAR
replayEvents(evs) ==
  IF Len(evs) = 0 THEN NoAR
  ELSE IF evs[1].event_type # "AR_CREATED" THEN NoAR
  ELSE replayFrom(initializeFromCreatedEvent(evs[1]), evs, 2)

(***************************************************************************)
(* AR repository                                                           *)
(***************************************************************************)
findById(st, ar_id) == IF ar_id \in 1..Len(st) THEN st[ar_id] ELSE NoAR

\* a save whose update writes the version it was given
saveSameVersion(st, state) ==
  IF state.ar_id \in 1..Len(st)
  THEN IF st[state.ar_id].version = state.version
       THEN [ok |-> TRUE, st |-> [st EXCEPT ![state.ar_id] = state]]
       ELSE [ok |-> FALSE, st |-> st]
  ELSE [ok |-> TRUE, st |-> Append(st, state)]

\* ok = FALSE is the "Optimistic lock failed" throw
save(st, state) ==
  IF state.ar_id \in 1..Len(st)
  THEN IF st[state.ar_id].version = state.version
       THEN [ok |-> TRUE,
             st |-> [st EXCEPT ![state.ar_id] =
                       [state EXCEPT !.version = state.version + 1]]]
       ELSE [ok |-> FALSE, st |-> st]
  ELSE [ok |-> TRUE, st |-> Append(st, state)]

\* IARRepository.updateStatus(ar_id, new_status): the caller passes no
\* version, so the write is conditioned on the stored document only
updateStatus(st, ar_id, new_status) ==
  IF ar_id \in 1..Len(st)
  THEN [st EXCEPT ![ar_id] = [@ EXCEPT !.current_status = new_status,
                                       !.version = @ + 1]]
  ELSE st

\* IARRepository.findByHomeIdAndDueDate(home_id, due_date)
findByHomeIdAndDueDate(st, home_id, due_date) ==
  LET hits == {i \in 1..Len(st) :
                 st[i].home_id = home_id /\ st[i].due_date = due_date}
  IN  IF hits = {} THEN NoAR
      ELSE st[CHOOSE i \in hits : \A j \in hits : i <= j]

RECURSIVE insertByDue(_, _)
insertByDue(sorted, ar) ==
  IF sorted = <<>> THEN <<ar>>
  ELSE IF DateLT(ar.due_date, Head(sorted).due_date) THEN <<ar>> \o sorted
  ELSE <<Head(sorted)>> \o insertByDue(Tail(sorted), ar)

RECURSIVE sortByDue(_)
sortByDue(seq) ==
  IF seq = <<>> THEN <<>>
  ELSE insertByDue(sortByDue(SubSeq(seq, 1, Len(seq) - 1)), seq[Len(seq)])

\* a query with $lte in place of $lt
findOverdueLte(st, current_date) ==
  sortByDue(SelectSeq(st, LAMBDA ar :
    ar.current_status = "PENDING" /\ ~DateLT(current_date, ar.due_date)))

\* find({current_status: PENDING, due_date: {$lt: today}}).sort({due_date: 1})
findOverdue(st, current_date) ==
  sortByDue(SelectSeq(st, LAMBDA ar :
    ar.current_status = "PENDING" /\ DateLT(ar.due_date, current_date)))

findByDueDateAndStatus(st, due_date, status) ==
  SelectSeq(st, LAMBDA ar : ar.current_status = status /\ ar.due_date = due_date)

\* find().sort({created_at: -1}): newest first
findAll(st) == [i \in 1..Len(st) |-> st[Len(st) + 1 - i]]

(***************************************************************************)
(* The store as one value, threaded through the handlers:                  *)
(* [events, ar_state, alerts, requested, result, ar_id]                    *)
(***************************************************************************)
Store(ev, st, al, rq) ==
  [events |-> ev, ar_state |-> st, alerts |-> al, requested |-> rq,
   result |-> "ok", ar_id |-> 0]

(***************************************************************************)
(* Create AR                                                               *)
(***************************************************************************)
\* a validateInput that does not compare due_date with invoice_date
CreateARValidateNoOrder(dto) ==
  IF dto.home_id = "" THEN "ValidationError"
  ELSE IF dto.customer_name = "" THEN "ValidationError"
  ELSE IF dto.amount.value <= 0 THEN "ValidationError"
  ELSE IF dto.amount.currency = "" THEN "ValidationError"
  ELSE IF dto.invoice_date = NoDate THEN "ValidationError"
  ELSE IF dto.due_date = NoDate THEN "ValidationError"
  ELSE "proceed"

CreateARValidate(dto) ==
  IF dto.home_id = "" THEN "ValidationError"
  ELSE IF dto.customer_name = "" THEN "ValidationError"
  ELSE IF dto.amount.value <= 0 THEN "ValidationError"
  ELSE IF dto.amount.currency = "" THEN "ValidationError"
  ELSE IF dto.invoice_date = NoDate THEN "ValidationError"
  ELSE IF dto.due_date = NoDate THEN "ValidationError"
  ELSE IF DateLT(dto.due_date, dto.invoice_date) THEN "ValidationError"
  ELSE "proceed"

CreateARExecute(S, dto) ==
  IF CreateARValidate(dto) # "proceed"
  THEN [S EXCEPT !.result = CreateARValidate(dto), !.ar_id = 0]
  ELSE
    LET ar_id == Len(S.ar_state) + 1
        event == NewEvent(S.events, ar_id, "AR_CREATED",
                   [home_id |-> dto.home_id,
                    customer_name |-> dto.customer_name,
                    amount |-> dto.amount,
                    invoice_date |-> dto.invoice_date,
                    due_date |-> dto.due_date,
                    customer_chat_id |-> dto.customer_chat_id,
                    manager_chat_id |-> dto.manager_chat_id,
                    assigned_sales_id |-> dto.assigned_sales_id])
        state == replayEvents(<<event>>)
        saved == save(S.ar_state, state)
    IN  [S EXCEPT !.events = append(S.events, event),
                  !.ar_state = saved.st,
                  !.result = "ok",
                  !.ar_id = ar_id]

(***************************************************************************)
(* Change status                                                           *)
(***************************************************************************)
\* a handler without the "status actually changed" test
ChangeARStatusCheckAlways(snap, dto) ==
  IF dto.new_status \notin Statuses THEN "ValidationError"
  ELSE IF snap = NoAR THEN "NotFound"
  ELSE "proceed"

\* validateInput, findById and the no-op test: everything before the append
ChangeARStatusCheck(snap, dto) ==
  IF dto.new_status \notin Statuses THEN "ValidationError"
  ELSE IF snap = NoAR THEN "NotFound"
  ELSE IF snap.current_status = dto.new_status THEN "noop"
  ELSE "proceed"

\* the append and the snapshot write, for a command that loaded snap
ChangeARStatusWrite(S, snap, dto) ==
  LET event == NewEvent(S.events, dto.ar_id, "STATUS_CHANGED",
                 [old_status |-> snap.current_status,
                  new_status |-> dto.new_status])
  IN  [S EXCEPT !.events = append(S.events, event),
                !.ar_state = updateStatus(S.ar_state, dto.ar_id, dto.new_status),
                !.result = "ok",
                !.ar_id = dto.ar_id]

ChangeARStatusExecute(S, dto) ==
  LET snap == findById(S.ar_state, dto.ar_id)
      chk  == ChangeARStatusCheck(snap, dto)
  IN  IF chk # "proceed" THEN [S EXCEPT !.result = chk, !.ar_id = dto.ar_id]
      ELSE ChangeARStatusWrite(S, snap, dto)

(***************************************************************************)
(* Log follow-up                                                           *)
(***************************************************************************)
LogFollowUpCheck(snap, dto) ==
  IF dto.notes = "" THEN "ValidationError"
  ELSE IF dto.actor_type \notin {"MANAGER", "SALES"} THEN "ValidationError"
  ELSE IF snap = NoAR THEN "NotFound"
  ELSE "proceed"

\* a handler that puts the AR back to PENDING while it logs the note
LogFollowUpWriteReopens(S, snap, dto) ==
  LET event == NewEvent(S.events, dto.ar_id, "FOLLOW_UP_LOGGED",
                 [notes |-> dto.notes])
      ar    == [snap EXCEPT !.current_status = "PENDING",
                            !.last_event_id = event.event_id,
                            !.last_event_at = event.timestamp,
                            !.event_count = snap.event_count + 1]
      saved == save(S.ar_state, ar)
  IN  [S EXCEPT !.events = append(S.events, event),
                !.ar_state = saved.st,
                !.result = IF saved.ok THEN "ok" ELSE "ConcurrentModification",
                !.ar_id = dto.ar_id]

\* a handler that writes the snapshot first and appends once that succeeded
LogFollowUpWriteSaveFirst(S, snap, dto) ==
  LET event == NewEvent(S.events, dto.ar_id, "FOLLOW_UP_LOGGED",
                 [notes |-> dto.notes])
      ar    == [snap EXCEPT !.last_event_id = event.event_id,
                            !.last_event_at = event.timestamp,
                            !.event_count = snap.event_count + 1]
      saved == save(S.ar_state, ar)
  IN  [S EXCEPT !.events = IF saved.ok THEN append(S.events, event)
                           ELSE S.events,
                !.ar_state = saved.st,
                !.result = IF saved.ok THEN "ok" ELSE "ConcurrentModification",
                !.ar_id = dto.ar_id]

LogFollowUpWrite(S, snap, dto) ==
  LET event == NewEvent(S.events, dto.ar_id, "FOLLOW_UP_LOGGED",
                 [notes |-> dto.notes])
      ar    == [snap EXCEPT !.last_event_id = event.event_id,
                            !.last_event_at = event.timestamp,
                            !.event_count = snap.event_count + 1]
      saved == save(S.ar_state, ar)
  IN  [S EXCEPT !.events = append(S.events, event),
                !.ar_state = saved.st,
                !.result = IF saved.ok THEN "ok" ELSE "ConcurrentModification",
                !.ar_id = dto.ar_id]

LogFollowUpExecute(S, dto) ==
  LET snap == findById(S.ar_state, dto.ar_id)
      chk  == LogFollowUpCheck(snap, dto)
  IN  IF chk # "proceed" THEN [S EXCEPT !.result = chk, !.ar_id = dto.ar_id]
      ELSE LogFollowUpWrite(S, snap, dto)

(***************************************************************************)
(* Change due date                                                         *)
(***************************************************************************)
\* thirtyDaysAgo is computed from the wall clock
ChangeDueDateCheck(snap, dto, now) ==
  IF dto.new_due_date = NoDate THEN "ValidationError"
  ELSE IF dto.reason = "" THEN "ValidationError"
  ELSE IF DayNum(dto.new_due_date) < DayNum(now) - 30 THEN "ValidationError"
  ELSE IF snap = NoAR THEN "NotFound"
  ELSE IF snap.due_date = dto.new_due_date THEN "noop"
  ELSE "proceed"

\* the handler adds 1 to ar.version itself before it calls save
ChangeDueDateWrite(S, snap, dto) ==
  LET event == NewEvent(S.events, dto.ar_id, "DUE_DATE_CHANGED",
                 [old_due_date |-> snap.due_date,
                  new_due_date |-> dto.new_due_date])
      ar    == [snap EXCEPT !.due_date = dto.new_due_date,
                            !.last_event_id = event.event_id,
                            !.last_event_at = event.timestamp,
                            !.event_count = snap.event_count + 1,
                            !.version = snap.version + 1]
      saved == save(S.ar_state, ar)
  IN  [S EXCEPT !.events = append(S.events, event),
                !.ar_state = saved.st,
                !.result = IF saved.ok THEN "ok" ELSE "ConcurrentModification",
                !.ar_id = dto.ar_id]

ChangeDueDateExecute(S, dto, now) ==
  LET snap == findById(S.ar_state, dto.ar_id)
      chk  == ChangeDueDateCheck(snap, dto, now)
  IN  IF chk # "proceed" THEN [S EXCEPT !.result = chk, !.ar_id = dto.ar_id]
      ELSE ChangeDueDateWrite(S, snap, dto)

(***************************************************************************)
(* Create next month's AR                                                  *)
(***************************************************************************)
\* the routine without its duplicate guard
CreateNextMonthARNoGuard(S, dto) ==
  LET paidAR == findById(S.ar_state, dto.paid_ar_id)
  IN  IF paidAR = NoAR THEN [S EXCEPT !.result = "NotFound", !.ar_id = 0]
      ELSE CreateARExecute(S,
             [home_id |-> paidAR.home_id,
              customer_name |-> paidAR.customer_name,
              amount |-> paidAR.amount,
              invoice_date |-> dto.payment_date,
              due_date |-> addMonths(paidAR.due_date, 1),
              customer_chat_id |-> paidAR.customer_chat_id,
              manager_chat_id |-> paidAR.manager_chat_id,
              assigned_sales_id |-> paidAR.assigned_sales_id])

\* result "ok" with ar_id of the new or the already existing AR; any other
\* result is the error the routine throws
CreateNextMonthARExecute(S, dto) ==
  LET paidAR == findById(S.ar_state, dto.paid_ar_id)
  IN  IF paidAR = NoAR THEN [S EXCEPT !.result = "NotFound", !.ar_id = 0]
      ELSE
        LET nextDueDate == addMonths(paidAR.due_date, 1)
            existingAR  == findByHomeIdAndDueDate(S.ar_state, paidAR.home_id,
                                                  nextDueDate)
        IN  IF existingAR # NoAR
            THEN [S EXCEPT !.result = "ok", !.ar_id = existingAR.ar_id]
            ELSE CreateARExecute(S,
                   [home_id |-> paidAR.home_id,
                    customer_name |-> paidAR.customer_name,
                    amount |-> paidAR.amount,
                    invoice_date |-> dto.payment_date,
                    due_date |-> nextDueDate,
                    customer_chat_id |-> paidAR.customer_chat_id,
                    manager_chat_id |-> paidAR.manager_chat_id,
                    assigned_sales_id |-> paidAR.assigned_sales_id])

(***************************************************************************)
(* Verify payment                                                          *)
(***************************************************************************)
\* a handler without the "already marked as paid" test
VerifyPaymentCheckNoPaidTest(snap, dto) ==
  IF dto.paid_amount.value <= 0 THEN "ValidationError"
  ELSE IF dto.paid_amount.currency = "" THEN "ValidationError"
  ELSE IF dto.payment_date = NoDate THEN "ValidationError"
  ELSE IF snap = NoAR THEN "NotFound"
  ELSE "proceed"

VerifyPaymentCheck(snap, dto) ==
  IF dto.paid_amount.value <= 0 THEN "ValidationError"
  ELSE IF dto.paid_amount.currency = "" THEN "ValidationError"
  ELSE IF dto.payment_date = NoDate THEN "ValidationError"
  ELSE IF snap = NoAR THEN "NotFound"
  ELSE IF snap.current_status = "PAID" THEN "AlreadyPaid"
  ELSE "proceed"

\* a handler whose next-month call is not wrapped in try/catch
VerifyPaymentWriteRethrow(S, snap, dto) ==
  LET event == NewEvent(S.events, dto.ar_id, "PAYMENT_VERIFIED",
                 [paid_amount |-> dto.paid_amount,
                  payment_date |-> dto.payment_date])
      ar    == [snap EXCEPT !.current_status = "PAID",
                            !.paid_date = dto.payment_date,
                            !.last_event_id = event.event_id,
                            !.last_event_at = event.timestamp,
                            !.event_count = snap.event_count + 1]
      saved == save(S.ar_state, ar)
      S1    == [S EXCEPT !.events = append(S.events, event),
                         !.ar_state = saved.st,
                         !.ar_id = dto.ar_id]
  IN  IF ~saved.ok THEN [S1 EXCEPT !.result = "ConcurrentModification"]
      ELSE [CreateNextMonthARExecute(S1,
              [paid_ar_id |-> dto.ar_id, payment_date |-> NoDate])
            EXCEPT !.ar_id = dto.ar_id]

\* execute({ paid_ar_id: dto.ar_id }): the routine is called without a
\* payment_date, so its dto.payment_date is undefined
VerifyPaymentWrite(S, snap, dto) ==
  LET event == NewEvent(S.events, dto.ar_id, "PAYMENT_VERIFIED",
                 [paid_amount |-> dto.paid_amount,
                  payment_date |-> dto.payment_date])
      ar    == [snap EXCEPT !.current_status = "PAID",
                            !.paid_date = dto.payment_date,
                            !.last_event_id = event.event_id,
                            !.last_event_at = event.timestamp,
                            !.event_count = snap.event_count + 1]
      saved == save(S.ar_state, ar)
      S1    == [S EXCEPT !.events = append(S.events, event),
                         !.ar_state = saved.st,
                         !.ar_id = dto.ar_id]
  IN  IF ~saved.ok THEN [S1 EXCEPT !.result = "ConcurrentModification"]
      ELSE
        LET S2 == CreateNextMonthARExecute(S1,
                    [paid_ar_id |-> dto.ar_id, payment_date |-> NoDate])
        IN  [S2 EXCEPT !.result = "ok", !.ar_id = dto.ar_id]

VerifyPaymentExecute(S, dto) ==
  LET snap == findById(S.ar_state, dto.ar_id)
      chk  == VerifyPaymentCheck(snap, dto)
  IN  IF chk # "proceed" THEN [S EXCEPT !.result = chk, !.ar_id = dto.ar_id]
      ELSE VerifyPaymentWrite(S, snap, dto)

(***************************************************************************)
(* Alert service                                                           *)
(***************************************************************************)
getDefaultPriority(alertType) ==
  CASE alertType = "PRE_ALERT" -> 2
    [] alertType = "DUE" -> 3
    [] alertType = "OVERDUE" -> 4
    [] alertType = "ESCALATION" -> 5
    [] OTHER -> 3

\* MongoAlertRepository.save: upsert on alert_id
alertSave(al, alert) ==
  IF \E i \in 1..Len(al) : al[i].alert_id = alert.alert_id
  THEN [i \in 1..Len(al) |->
          IF al[i].alert_id = alert.alert_id THEN alert ELSE al[i]]
  ELSE Append(al, alert)

findByDedupKey(al, dedup_key) ==
  LET hits == {i \in 1..Len(al) : al[i].dedup_key = dedup_key}
  IN  IF hits = {} THEN [alert_id |-> 0]
      ELSE al[CHOOSE i \in hits : \A j \in hits : i <= j]

\* params.dedup_key is not read: QueueAlertParams has no such field and the
\* Alert that is built carries none
queueAlert(S, params) ==
  LET alert_id == Len(S.alerts) + 1
      priority == IF params.priority # 0 THEN params.priority
                  ELSE getDefaultPriority(params.alert_type)
      alert == [alert_id |-> alert_id,
                ar_id |-> params.ar_id,
                dedup_key |-> NoKey,
                alert_type |-> params.alert_type,
                target_type |-> params.target_type,
                priority |-> priority,
                chat_id |-> params.delivery_chat_id,
                status |-> "QUEUED",
                attempts |-> 0,
                max_attempts |-> 3,
                scheduled_for |-> clock]
      event == NewEvent(S.events, params.ar_id, "ALERT_QUEUED",
                 [alert_id |-> alert_id,
                  alert_type |-> params.alert_type,
                  target_type |-> params.target_type,
                  priority |-> priority])
  IN  [S EXCEPT !.alerts = alertSave(S.alerts, alert),
                !.requested = Append(S.requested, params.dedup_key),
                !.events = append(S.events, event),
                !.result = "ok"]

(***************************************************************************)
(* Alert delivery                                                          *)
(***************************************************************************)
MaxTicks == 3
\* baseDelayMs = 5 * 60 * 1000, in minutes
BaseDelayMinutes == 5
\* .limit(50)
BatchLimit == 50

\* a retry test that allows one attempt more
canRetryLeq(alert) == alert.attempts <= alert.max_attempts

canRetry(alert) == alert.attempts < alert.max_attempts

\* Math.pow(2, n); the callers pass n >= 0
RECURSIVE Pow2(_)
Pow2(n) == IF n <= 0 THEN 1 ELSE 2 * Pow2(n - 1)

\* a backoff whose exponent is attempts instead of attempts - 1
getNextRetryTimeDoubled(alert, current_time) ==
  current_time + BaseDelayMinutes * Pow2(alert.attempts)

\* new Date(Date.now() + baseDelayMs * Math.pow(2, alert.attempts - 1))
getNextRetryTime(alert, current_time) ==
  current_time + BaseDelayMinutes * Pow2(alert.attempts - 1)

\* sort({priority: -1, scheduled_for: 1}); equal keys keep insertion order
SortsBefore(a, b) ==
  \/ a.priority > b.priority
  \/ a.priority = b.priority /\ a.scheduled_for < b.scheduled_for

RECURSIVE insertByPriority(_, _)
insertByPriority(sorted, alert) ==
  IF sorted = <<>> THEN <<alert>>
  ELSE IF SortsBefore(alert, Head(sorted)) THEN <<alert>> \o sorted
  ELSE <<Head(sorted)>> \o insertByPriority(Tail(sorted), alert)

RECURSIVE sortByPriority(_)
sortByPriority(seq) ==
  IF seq = <<>> THEN <<>>
  ELSE insertByPriority(sortByPriority(SubSeq(seq, 1, Len(seq) - 1)),
                        seq[Len(seq)])

\* a query without the status filter
findPendingAnyStatus(al, current_time) ==
  LET hits == sortByPriority(SelectSeq(al, LAMBDA a :
                a.scheduled_for <= current_time))
  IN  IF Len(hits) > BatchLimit THEN SubSeq(hits, 1, BatchLimit) ELSE hits

\* a query without the limit
findPendingNoLimit(al, current_time) ==
  sortByPriority(SelectSeq(al, LAMBDA a :
    a.status = "QUEUED" /\ a.scheduled_for <= current_time))

findPendingBySchedule(al, current_time) ==
  LET hits == sortByPriority(SelectSeq(al, LAMBDA a :
                a.status = "QUEUED" /\ a.scheduled_for <= current_time))
  IN  IF Len(hits) > BatchLimit THEN SubSeq(hits, 1, BatchLimit) ELSE hits

\* deliverAlert up to the channel call: the alert is saved as PROCESSING
markProcessing(alert) ==
  [alert EXCEPT !.status = "PROCESSING", !.attempts = alert.attempts + 1]

\* alert.status = SENT; alert.sent_at = new Date(); alertRepository.save
saveSent(S, alert) ==
  [S EXCEPT !.alerts = alertSave(S.alerts, [alert EXCEPT !.status = "SENT"])]

\* eventStore.append of the ALERT_SENT event
appendSent(S, alert) ==
  [S EXCEPT !.events = append(S.events,
              NewEvent(S.events, alert.ar_id, "ALERT_SENT",
                [alert_id |-> alert.alert_id, sent_at |-> clock])),
            !.result = "ok"]

\* deliverAlert after the channel accepted the message
markSent(S, alert) == appendSent(saveSent(S, alert), alert)

\* a failure handler that appends no ALERT_FAILED event
handleDeliveryFailureSilent(S, alert) ==
  LET failed == IF canRetry(alert)
                THEN [alert EXCEPT !.status = "QUEUED",
                                   !.scheduled_for = getNextRetryTime(alert, clock)]
                ELSE [alert EXCEPT !.status = "FAILED"]
  IN  [S EXCEPT !.alerts = alertSave(S.alerts, failed),
                !.result = "failed"]

\* a failure handler that records the failure and leaves the alert as it is
handleDeliveryFailureNoSave(S, alert) ==
  [S EXCEPT !.events = append(S.events,
              NewEvent(S.events, alert.ar_id, "ALERT_FAILED",
                [alert_id |-> alert.alert_id, failed_at |-> clock,
                 attempts |-> alert.attempts])),
            !.result = "failed"]

handleDeliveryFailure(S, alert) ==
  LET failed == IF canRetry(alert)
                THEN [alert EXCEPT !.status = "QUEUED",
                                   !.scheduled_for = getNextRetryTime(alert, clock)]
                ELSE [alert EXCEPT !.status = "FAILED"]
      event  == NewEvent(S.events, alert.ar_id, "ALERT_FAILED",
                  [alert_id |-> alert.alert_id, failed_at |-> clock,
                   attempts |-> alert.attempts])
  IN  [S EXCEPT !.alerts = alertSave(S.alerts, failed),
                !.events = append(S.events, event),
                !.result = "failed"]

(***************************************************************************)
(* Date checker worker (the daily sweep)                                   *)
(***************************************************************************)
PrealertDays == 3
\* largest configured horizon of the future-AR generation
MaxMonthsAhead == 2

DedupKey(ar, alert_type, target_type, suffix) ==
  <<ar.ar_id, alert_type, target_type, ar.due_date, suffix>>

AlertParams(ar, alert_type, target_type, chat_id, priority, suffix) ==
  [ar_id |-> ar.ar_id, alert_type |-> alert_type, target_type |-> target_type,
   delivery_chat_id |-> chat_id, priority |-> priority,
   dedup_key |-> DedupKey(ar, alert_type, target_type, suffix)]

queueIf(S, cond, params) == IF cond THEN queueAlert(S, params) ELSE S

RECURSIVE promoteEach(_, _, _)
promoteEach(S, ars, i) ==
  IF i > Len(ars) THEN S
  ELSE promoteEach(
         ChangeARStatusExecute(S, [ar_id |-> ars[i].ar_id,
                                   new_status |-> "OVERDUE"]),
         ars, i + 1)

updateOverdueStatus(S, day) ==
  promoteEach(S, findOverdue(S.ar_state, day), 1)

RECURSIVE dueEach(_, _, _)
dueEach(S, ars, i) ==
  IF i > Len(ars) THEN S
  ELSE
    LET ar == ars[i]
        S1 == queueIf(S, ar.customer_chat_id # NoChat,
                AlertParams(ar, "DUE", "CUSTOMER", ar.customer_chat_id, 3, ""))
        S2 == queueIf(S1, ar.manager_chat_id # NoChat,
                AlertParams(ar, "DUE", "MANAGER", ar.manager_chat_id, 2, ""))
    IN  dueEach(S2, ars, i + 1)

checkDueARs(S, day) ==
  dueEach(S, findByDueDateAndStatus(S.ar_state, day, "PENDING"), 1)

RECURSIVE overdueEach(_, _, _, _)
overdueEach(S, ars, day, i) ==
  IF i > Len(ars) THEN S
  ELSE
    LET ar == ars[i]
        daysOverdue == DayNum(day) - DayNum(ar.due_date)
        S1 == queueIf(S, daysOverdue = 7 /\ ar.customer_chat_id # NoChat,
                AlertParams(ar, "OVERDUE", "CUSTOMER", ar.customer_chat_id, 4, "D7"))
        inWindow == daysOverdue >= 4 /\ daysOverdue <= 7
        S2 == queueIf(S1, inWindow /\ ar.customer_chat_id # NoChat,
                AlertParams(ar, "ESCALATION", "CUSTOMER", ar.customer_chat_id, 5, ""))
        S3 == queueIf(S2, inWindow /\ ar.manager_chat_id # NoChat,
                AlertParams(ar, "ESCALATION", "MANAGER", ar.manager_chat_id, 5, ""))
    IN  overdueEach(S3, ars, day, i + 1)

checkOverdueARs(S, day) ==
  overdueEach(S, findOverdue(S.ar_state, day), day, 1)

RECURSIVE preAlertEach(_, _, _)
preAlertEach(S, ars, i) ==
  IF i > Len(ars) THEN S
  ELSE preAlertEach(
         queueIf(S, ars[i].customer_chat_id # NoChat,
           AlertParams(ars[i], "PRE_ALERT", "CUSTOMER",
                       ars[i].customer_chat_id, 2, "")),
         ars, i + 1)

checkPreAlerts(S, day) ==
  preAlertEach(S,
    findByDueDateAndStatus(S.ar_state, setDatePlus(day, PrealertDays), "PENDING"),
    1)

\* a getNextDueDate that keeps a candidate falling on today or before
getNextDueDateNoBump(baseDueDate, day) ==
  LET normalizedBase  == toLocalMidnight(baseDueDate)
      normalizedToday == toLocalMidnight(day)
  IN  IF DateLT(normalizedToday, normalizedBase) THEN normalizedBase
      ELSE addMonths(normalizedBase,
             (normalizedToday[1] - normalizedBase[1]) * 12
               + (normalizedToday[2] - normalizedBase[2]))

getNextDueDate(baseDueDate, day) ==
  LET normalizedBase  == toLocalMidnight(baseDueDate)
      normalizedToday == toLocalMidnight(day)
  IN  IF DateLT(normalizedToday, normalizedBase) THEN normalizedBase
      ELSE
        LET monthDiff == (normalizedToday[1] - normalizedBase[1]) * 12
                           + (normalizedToday[2] - normalizedBase[2])
            candidate == addMonths(normalizedBase, monthDiff)
        IN  IF ~DateLT(normalizedToday, candidate)
            THEN addMonths(candidate, 1) ELSE candidate

\* activeArs.reduce((latest, current) =>
\*   current.due_date > latest.due_date ? current : latest)
RECURSIVE latestDue(_, _, _)
latestDue(latest, ars, i) ==
  IF i > Len(ars) THEN latest
  ELSE latestDue(IF DateLT(latest.due_date, ars[i].due_date)
                 THEN ars[i] ELSE latest, ars, i + 1)

\* the keys of arsByHome, in insertion order
RECURSIVE homeOrder(_, _, _)
homeOrder(ars, i, seen) ==
  IF i > Len(ars) THEN seen
  ELSE homeOrder(ars, i + 1,
         IF \E k \in 1..Len(seen) : seen[k] = ars[i].home_id
         THEN seen ELSE Append(seen, ars[i].home_id))

RECURSIVE futureMonths(_, _, _, _, _, _)
futureMonths(S, template, nextDue, existingDueDates, day, i) ==
  IF i >= futureArMonthsAhead THEN S
  ELSE
    LET dueDate == addMonths(nextDue, i)
    IN  IF dueDate \in existingDueDates
        THEN futureMonths(S, template, nextDue, existingDueDates, day, i + 1)
        ELSE IF findByHomeIdAndDueDate(S.ar_state, template.home_id, dueDate) # NoAR
        THEN futureMonths(S, template, nextDue, existingDueDates, day, i + 1)
        ELSE futureMonths(
               CreateARExecute(S,
                 [home_id |-> template.home_id,
                  customer_name |-> template.customer_name,
                  amount |-> template.amount,
                  invoice_date |-> day,
                  due_date |-> dueDate,
                  customer_chat_id |-> template.customer_chat_id,
                  manager_chat_id |-> template.manager_chat_id,
                  assigned_sales_id |-> template.assigned_sales_id]),
               template, nextDue, existingDueDates, day, i + 1)

RECURSIVE futureEachHome(_, _, _, _, _)
futureEachHome(S, allARs, homes, day, h) ==
  IF h > Len(homes) THEN S
  ELSE
    LET ars == SelectSeq(allARs, LAMBDA ar : ar.home_id = homes[h])
        activeArs == SelectSeq(ars, LAMBDA ar : ar.current_status # "WRITTEN_OFF")
    IN  IF Len(activeArs) = 0
        THEN futureEachHome(S, allARs, homes, day, h + 1)
        ELSE
          LET template == latestDue(activeArs[1], activeArs, 2)
              existingDueDates == {ars[k].due_date : k \in 1..Len(ars)}
              nextDue == getNextDueDate(template.due_date, day)
          IN  futureEachHome(
                futureMonths(S, template, nextDue, existingDueDates, day, 0),
                allARs, homes, day, h + 1)

ensureFutureARs(S, day) ==
  IF futureArMonthsAhead <= 0 THEN S
  ELSE LET allARs == findAll(S.ar_state)
       IN  futureEachHome(S, allARs, homeOrder(allARs, 1, <<>>), day, 1)

run(S, day) ==
  LET S1 == updateOverdueStatus(S, day)
      S2 == checkDueARs(S1, day)
      S3 == checkOverdueARs(S2, day)
      S4 == checkPreAlerts(S3, day)
      S5 == ensureFutureARs(S4, day)
  IN  [S5 EXCEPT !.result = "ok", !.ar_id = 0]

(***************************************************************************)
(* The sweep when a store call throws.  fault = [step, ar_id, point]:      *)
(* step "promote" makes the change-status command of that AR throw, at its *)
(* append or at its snapshot write; step "enqueue" makes the first         *)
(* queueAlert call for that AR throw at its alertRepository.save           *)
(***************************************************************************)
ChangeARStatusThrows(S, dto, point) ==
  LET snap == findById(S.ar_state, dto.ar_id)
      chk  == ChangeARStatusCheck(snap, dto)
  IN  IF chk # "proceed" THEN [S EXCEPT !.result = chk, !.ar_id = dto.ar_id]
      ELSE IF point = "append" THEN [S EXCEPT !.result = "threw"]
      ELSE [S EXCEPT !.events = append(S.events,
                       NewEvent(S.events, dto.ar_id, "STATUS_CHANGED",
                         [old_status |-> snap.current_status,
                          new_status |-> dto.new_status])),
                     !.result = "threw"]

\* a loop without the try/catch around the command: the first throw ends it
RECURSIVE promoteEachFaultStops(_, _, _, _)
promoteEachFaultStops(S, ars, i, fault) ==
  IF i > Len(ars) THEN S
  ELSE
    LET dto == [ar_id |-> ars[i].ar_id, new_status |-> "OVERDUE"]
    IN  IF fault.step = "promote" /\ ars[i].ar_id = fault.ar_id
        THEN ChangeARStatusThrows(S, dto, fault.point)
        ELSE promoteEachFaultStops(ChangeARStatusExecute(S, dto),
                                   ars, i + 1, fault)

\* the catch inside the loop drops the error and the loop goes on
RECURSIVE promoteEachFault(_, _, _, _)
promoteEachFault(S, ars, i, fault) ==
  IF i > Len(ars) THEN S
  ELSE
    LET dto == [ar_id |-> ars[i].ar_id, new_status |-> "OVERDUE"]
    IN  promoteEachFault(
          IF fault.step = "promote" /\ ars[i].ar_id = fault.ar_id
          THEN ChangeARStatusThrows(S, dto, fault.point)
          ELSE ChangeARStatusExecute(S, dto),
          ars, i + 1, fault)

\* queueAlert is awaited with no try/catch around it: its throw leaves the
\* loop and the step, result "aborted" carrying it up to run
queueOrThrow(S, cond, params, fault) ==
  IF S.result = "aborted" THEN S
  ELSE IF cond /\ fault.step = "enqueue" /\ params.ar_id = fault.ar_id
  THEN [S EXCEPT !.result = "aborted"]
  ELSE queueIf(S, cond, params)

RECURSIVE dueEachFault(_, _, _, _)
dueEachFault(S, ars, i, fault) ==
  IF i > Len(ars) THEN S
  ELSE
    LET ar == ars[i]
        S1 == queueOrThrow(S, ar.customer_chat_id # NoChat,
                AlertParams(ar, "DUE", "CUSTOMER", ar.customer_chat_id, 3, ""),
                fault)
        S2 == queueOrThrow(S1, ar.manager_chat_id # NoChat,
                AlertParams(ar, "DUE", "MANAGER", ar.manager_chat_id, 2, ""),
                fault)
    IN  dueEachFault(S2, ars, i + 1, fault)

RECURSIVE overdueEachFault(_, _, _, _, _)
overdueEachFault(S, ars, day, i, fault) ==
  IF i > Len(ars) THEN S
  ELSE
    LET ar == ars[i]
        daysOverdue == DayNum(day) - DayNum(ar.due_date)
        S1 == queueOrThrow(S, daysOverdue = 7 /\ ar.customer_chat_id # NoChat,
                AlertParams(ar, "OVERDUE", "CUSTOMER", ar.customer_chat_id, 4, "D7"),
                fault)
        inWindow == daysOverdue >= 4 /\ daysOverdue <= 7
        S2 == queueOrThrow(S1, inWindow /\ ar.customer_chat_id # NoChat,
                AlertParams(ar, "ESCALATION", "CUSTOMER", ar.customer_chat_id, 5, ""),
                fault)
        S3 == queueOrThrow(S2, inWindow /\ ar.manager_chat_id # NoChat,
                AlertParams(ar, "ESCALATION", "MANAGER", ar.manager_chat_id, 5, ""),
                fault)
    IN  overdueEachFault(S3, ars, day, i + 1, fault)

RECURSIVE preAlertEachFault(_, _, _, _)
preAlertEachFault(S, ars, i, fault) ==
  IF i > Len(ars) THEN S
  ELSE preAlertEachFault(
         queueOrThrow(S, ars[i].customer_chat_id # NoChat,
           AlertParams(ars[i], "PRE_ALERT", "CUSTOMER",
                       ars[i].customer_chat_id, 2, ""),
           fault),
         ars, i + 1, fault)

\* run: a step is entered only if no earlier step threw; the catch of run
\* logs the error and throws it again
runFault(S, day, fault) ==
  LET S1 == [promoteEachFault(S, findOverdue(S.ar_state, day), 1, fault)
               EXCEPT !.result = "ok"]
      S2 == dueEachFault(S1,
              findByDueDateAndStatus(S1.ar_state, day, "PENDING"), 1, fault)
      S3 == IF S2.result = "aborted" THEN S2
            ELSE overdueEachFault(S2, findOverdue(S2.ar_state, day), day, 1,
                                  fault)
      S4 == IF S3.result = "aborted" THEN S3
            ELSE preAlertEachFault(S3,
                   findByDueDateAndStatus(S3.ar_state,
                     setDatePlus(day, PrealertDays), "PENDING"), 1, fault)
      S5 == IF S4.result = "aborted" THEN S4 ELSE ensureFutureARs(S4, day)
  IN  [S5 EXCEPT !.result = IF S4.result = "aborted" THEN "error" ELSE "ok",
                 !.ar_id = 0]

(***************************************************************************)
(* State machine                                                           *)
(***************************************************************************)
Procs == {1, 2}
Idle == [phase |-> "idle"]
WorkerIdle == [phase |-> "idle", batch |-> <<>>, ix |-> 0]
ChatConfigs == {<<"chatC", "chatM">>, <<"chatC", NoChat>>}
Money == [value |-> 1000, currency |-> "USD"]

Cur == Store(events, ar_state, alerts, requested)

\* callers create at most MaxAR ARs; the routines that derive an AR from an
\* existing one (next month, future horizon) may add one more
Fits(S) ==
  /\ Len(S.events) <= MaxEvents
  /\ Len(S.ar_state) <= MaxAR + 1
  /\ Len(S.alerts) <= MaxAlerts

Commit(S, op) ==
  /\ Fits(S)
  /\ events' = S.events
  /\ ar_state' = S.ar_state
  /\ alerts' = S.alerts
  /\ requested' = S.requested
  /\ last' = [op |-> op, result |-> S.result]

Init ==
  /\ events = <<>>
  /\ ar_state = <<>>
  /\ alerts = <<>>
  /\ requested = <<>>
  /\ dayIx = 1
  /\ inflight = [p \in Procs |-> Idle]
  /\ futureArMonthsAhead = MaxMonthsAhead
  /\ clock = 0
  /\ worker = WorkerIdle
  /\ channel = <<>>
  /\ last = [op |-> "Init", result |-> "ok"]

\* the worker constructed with a horizon from 0 (generation off) upwards
InitSweep ==
  /\ events = <<>>
  /\ ar_state = <<>>
  /\ alerts = <<>>
  /\ requested = <<>>
  /\ dayIx = 1
  /\ inflight = [p \in Procs |-> Idle]
  /\ futureArMonthsAhead \in 0..MaxMonthsAhead
  /\ clock = 0
  /\ worker = WorkerIdle
  /\ channel = <<>>
  /\ last = [op |-> "Init", result |-> "ok"]

CreateAR(home_id, due_date, chats) ==
  /\ Len(ar_state) < MaxAR
  /\ Commit(CreateARExecute(Cur,
       [home_id |-> home_id, customer_name |-> "Dara", amount |-> Money,
        invoice_date |-> InvoiceDate, due_date |-> due_date,
        customer_chat_id |-> chats[1], manager_chat_id |-> chats[2],
        assigned_sales_id |-> "sales1"]),
       "CreateAR")
  /\ UNCHANGED <<dayIx, inflight, futureArMonthsAhead, delivery>>

ChangeARStatus(ar_id, new_status) ==
  /\ Commit(ChangeARStatusExecute(Cur,
       [ar_id |-> ar_id, new_status |-> new_status]), "ChangeARStatus")
  /\ UNCHANGED <<dayIx, inflight, futureArMonthsAhead, delivery>>

LogFollowUp(ar_id) ==
  /\ Commit(LogFollowUpExecute(Cur,
       [ar_id |-> ar_id, notes |-> "called", actor_type |-> "SALES"]),
       "LogFollowUp")
  /\ UNCHANGED <<dayIx, inflight, futureArMonthsAhead, delivery>>

VerifyPayment(ar_id) ==
  /\ Commit(VerifyPaymentExecute(Cur,
       [ar_id |-> ar_id, paid_amount |-> Money, payment_date |-> today]),
       "VerifyPayment")
  /\ UNCHANGED <<dayIx, inflight, futureArMonthsAhead, delivery>>

ChangeDueDate(ar_id, new_due_date) ==
  /\ Commit(ChangeDueDateExecute(Cur,
       [ar_id |-> ar_id, new_due_date |-> new_due_date, reason |-> "import"],
       today), "ChangeDueDate")
  /\ UNCHANGED <<dayIx, inflight, futureArMonthsAhead, delivery>>

\* the requests a caller may submit, well-formed or not
Requests ==
  LET CreateRequests ==
        {[op |-> "CreateAR", home_id |-> "B101", customer_name |-> n,
          amount |-> [value |-> v, currency |-> c],
          invoice_date |-> InvoiceDate, due_date |-> d,
          customer_chat_id |-> "chatC", manager_chat_id |-> "chatM",
          assigned_sales_id |-> "sales1"] :
           n \in {"Dara", ""}, v \in {1000, 0}, c \in {"USD", ""},
           d \in {<<2025, 2, 5>>, <<2024, 12, 31>>}}
      ARRequests(ar_id) ==
        {[op |-> "ChangeARStatus", ar_id |-> ar_id, new_status |-> st] :
           st \in {"WRITTEN_OFF", "CANCELLED"}}
        \cup {[op |-> "LogFollowUp", ar_id |-> ar_id, notes |-> n,
               actor_type |-> t] :
                n \in {"called", ""}, t \in {"SALES", "CUSTOMER"}}
        \cup {[op |-> "VerifyPayment", ar_id |-> ar_id,
               paid_amount |-> Money, payment_date |-> today]}
        \cup {[op |-> "ChangeDueDate", ar_id |-> ar_id, new_due_date |-> d,
               reason |-> "import"] :
                d \in {<<2025, 2, 8>>, <<2024, 12, 31>>}}
  IN  CreateRequests \cup UNION {ARRequests(a) : a \in 1..MaxAR}

Execute(S, dto) ==
  CASE dto.op = "CreateAR" -> CreateARExecute(S, dto)
    [] dto.op = "ChangeARStatus" -> ChangeARStatusExecute(S, dto)
    [] dto.op = "LogFollowUp" -> LogFollowUpExecute(S, dto)
    [] dto.op = "VerifyPayment" -> VerifyPaymentExecute(S, dto)
    [] dto.op = "ChangeDueDate" -> ChangeDueDateExecute(S, dto, today)

\* one command handler run on a submitted request
Submit(dto) ==
  /\ dto.op = "CreateAR" => Len(ar_state) < MaxAR
  /\ Commit(Execute(Cur, dto), dto.op)
  /\ UNCHANGED <<dayIx, inflight, futureArMonthsAhead, delivery>>

\* a direct call of CreateNextMonthARCommand.execute with a payment date
CreateNextMonthAR(ar_id) ==
  /\ Commit(CreateNextMonthARExecute(Cur,
       [paid_ar_id |-> ar_id, payment_date |-> today]), "CreateNextMonthAR")
  /\ UNCHANGED <<dayIx, inflight, futureArMonthsAhead, delivery>>

\* a direct call of AlertService.queueAlert, with or without a dedup key
QueueAlert(ar_id, keyed) ==
  /\ ar_id \in ARIds
  /\ LET ar == ar_state[ar_id]
         params == AlertParams(ar, "DUE", "CUSTOMER", ar.customer_chat_id, 0, "")
     IN  /\ ar.customer_chat_id # NoChat
         /\ Commit([queueAlert(Cur,
                      IF keyed THEN params ELSE [params EXCEPT !.dedup_key = NoKey])
                    EXCEPT !.ar_id = ar_id], "QueueAlert")
  /\ UNCHANGED <<dayIx, inflight, futureArMonthsAhead, delivery>>

\* a direct call of AlertService.queueAlert for an alert of a given type,
\* which takes that type's default priority
QueueAlertOf(ar_id, alert_type) ==
  /\ ar_id \in ARIds
  /\ LET ar == ar_state[ar_id]
     IN  /\ ar.customer_chat_id # NoChat
         /\ Commit([queueAlert(Cur,
                      AlertParams(ar, alert_type, "CUSTOMER",
                                  ar.customer_chat_id, 0, ""))
                    EXCEPT !.ar_id = ar_id], "QueueAlert")
  /\ UNCHANGED <<dayIx, inflight, futureArMonthsAhead, delivery>>

\* n calls of queueAlert in a row, the alert types alternating
RECURSIVE queueEach(_, _, _)
queueEach(S, ar, n) ==
  IF n = 0 THEN S
  ELSE queueEach(
         queueAlert(S, AlertParams(ar,
           IF n % 2 = 0 THEN "ESCALATION" ELSE "PRE_ALERT",
           "CUSTOMER", ar.customer_chat_id, 0, "")),
         ar, n - 1)

\* one alert more than a batch holds is enqueued between two polls
QueueBurst(ar_id) ==
  /\ ar_id \in ARIds
  /\ alerts = <<>>
  /\ LET S == queueEach(Cur, ar_state[ar_id], BatchLimit + 1)
     IN  /\ events' = S.events
         /\ alerts' = S.alerts
         /\ requested' = S.requested
         /\ last' = [op |-> "QueueBurst", result |-> S.result]
  /\ UNCHANGED <<ar_state, dayIx, inflight, futureArMonthsAhead, delivery>>

\* a caller submits again an event whose identity is already stored
AppendDuplicate(i) ==
  /\ i \in 1..Len(events)
  /\ events' = append(events,
       [events[i] EXCEPT !.event_type = "FOLLOW_UP_LOGGED",
                         !.payload = [notes |-> "resubmitted"]])
  /\ last' = [op |-> "AppendDuplicate", result |-> "ok"]
  /\ UNCHANGED <<ar_state, alerts, requested, dayIx, inflight,
               futureArMonthsAhead, delivery>>

Sweep ==
  /\ Commit(run(Cur, today), "Sweep")
  /\ UNCHANGED <<dayIx, inflight, futureArMonthsAhead, delivery>>

Faults ==
  {[step |-> "promote", ar_id |-> a, point |-> p] :
     a \in 1..MaxAR, p \in {"append", "write"}}
  \cup {[step |-> "enqueue", ar_id |-> a, point |-> "save"] : a \in 1..MaxAR}

\* a sweep during which the store call named by fault throws
SweepFault(fault) ==
  /\ fault.ar_id \in ARIds
  /\ Commit(runFault(Cur, today, fault), "Sweep")
  /\ UNCHANGED <<dayIx, inflight, futureArMonthsAhead, delivery>>

(***************************************************************************)
(* A sweep run step by step, so that commands and a second run (the run at *)
(* start and the cron run) can take place between its awaits.              *)
(* inflight[p] of a run p: the list findOverdue returned and the position  *)
(* of the promotion loop in it, then the list findAll returned and the     *)
(* position (h, i) of the two future-AR loops                              *)
(***************************************************************************)
\* run up to and including updateOverdueStatus's findOverdue
SweepBegin(p) ==
  /\ inflight[p].phase = "idle"
  /\ inflight' = [inflight EXCEPT ![p] =
       [phase |-> "promoting", day |-> today,
        overdueARs |-> findOverdue(ar_state, today), ix |-> 1]]
  /\ UNCHANGED <<events, ar_state, alerts, requested, dayIx,
                 futureArMonthsAhead, delivery, last>>

\* one iteration of updateOverdueStatus's loop
SweepPromote(p) ==
  /\ inflight[p].phase = "promoting"
  /\ inflight[p].ix <= Len(inflight[p].overdueARs)
  /\ Commit(ChangeARStatusExecute(Cur,
       [ar_id |-> inflight[p].overdueARs[inflight[p].ix].ar_id,
        new_status |-> "OVERDUE"]), "ChangeARStatus")
  /\ inflight' = [inflight EXCEPT ![p].ix = @ + 1]
  /\ UNCHANGED <<dayIx, futureArMonthsAhead, delivery>>

\* checkDueARs, checkOverdueARs, checkPreAlerts, and ensureFutureARs up to
\* and including its findAll
SweepAlerts(p) ==
  /\ inflight[p].phase = "promoting"
  /\ inflight[p].ix > Len(inflight[p].overdueARs)
  /\ LET day == inflight[p].day
         S == checkPreAlerts(checkOverdueARs(checkDueARs(Cur, day), day), day)
         allARs == findAll(S.ar_state)
     IN  /\ Commit([S EXCEPT !.result = "ok", !.ar_id = 0], "Sweep")
         /\ inflight' = [inflight EXCEPT ![p] =
              IF futureArMonthsAhead <= 0 THEN Idle
              ELSE [phase |-> "future", day |-> day, allARs |-> allARs,
                    homes |-> homeOrder(allARs, 1, <<>>), h |-> 1, i |-> 0,
                    added |-> {}]]
  /\ UNCHANGED <<dayIx, futureArMonthsAhead, delivery>>

\* the template and the first due date of home h of a run
FutureOf(r) ==
  LET ars == SelectSeq(r.allARs, LAMBDA ar : ar.home_id = r.homes[r.h])
      activeArs == SelectSeq(ars, LAMBDA ar : ar.current_status # "WRITTEN_OFF")
      template == IF Len(activeArs) = 0 THEN NoAR
                  ELSE latestDue(activeArs[1], activeArs, 2)
  IN  [template |-> template,
       existingDueDates |-> {ars[k].due_date : k \in 1..Len(ars)} \cup r.added,
       dueDate |-> IF template = NoAR THEN NoDate
                   ELSE addMonths(getNextDueDate(template.due_date, r.day), r.i)]

\* ensureFutureARs from the head of its inner loop to the answer of
\* findByHomeIdAndDueDate
FutureCheck(p) ==
  /\ inflight[p].phase = "future"
  /\ LET r == inflight[p]
         f == IF r.h > Len(r.homes) THEN [template |-> NoAR] ELSE FutureOf(r)
     IN  inflight' = [inflight EXCEPT ![p] =
           IF r.h > Len(r.homes) THEN Idle
           ELSE IF f.template = NoAR \/ r.i >= futureArMonthsAhead
           THEN [r EXCEPT !.h = r.h + 1, !.i = 0, !.added = {}]
           ELSE IF f.dueDate \in f.existingDueDates
           THEN [r EXCEPT !.i = r.i + 1]
           ELSE IF findByHomeIdAndDueDate(ar_state, f.template.home_id,
                                          f.dueDate) # NoAR
           THEN [r EXCEPT !.i = r.i + 1, !.added = r.added \cup {f.dueDate}]
           ELSE [r EXCEPT !.phase = "creating"]]
  /\ UNCHANGED <<events, ar_state, alerts, requested, dayIx,
                 futureArMonthsAhead, delivery, last>>

\* ensureFutureARs: createARCommand.execute for the month just checked
FutureCreate(p) ==
  /\ inflight[p].phase = "creating"
  /\ LET r == inflight[p]
         f == FutureOf(r)
     IN  /\ Commit(CreateARExecute(Cur,
                [home_id |-> f.template.home_id,
                 customer_name |-> f.template.customer_name,
                 amount |-> f.template.amount,
                 invoice_date |-> r.day,
                 due_date |-> f.dueDate,
                 customer_chat_id |-> f.template.customer_chat_id,
                 manager_chat_id |-> f.template.manager_chat_id,
                 assigned_sales_id |-> f.template.assigned_sales_id]),
              "CreateAR")
         /\ inflight' = [inflight EXCEPT ![p] =
              [r EXCEPT !.phase = "future", !.i = r.i + 1,
                        !.added = r.added \cup {f.dueDate}]]
  /\ UNCHANGED <<dayIx, futureArMonthsAhead, delivery>>

AdvanceDay ==
  /\ dayIx < Len(Days)
  /\ dayIx' = dayIx + 1
  /\ last' = [op |-> "AdvanceDay", result |-> "ok"]
  /\ UNCHANGED <<events, ar_state, alerts, requested, inflight,
               futureArMonthsAhead, delivery>>

(***************************************************************************)
(* The delivery loop: processAlerts takes its batch (Poll), then for each   *)
(* alert of the batch deliverAlert saves it as PROCESSING (DeliverBegin)   *)
(* and, after the channel answered, as SENT, QUEUED or FAILED (DeliverEnd) *)
(***************************************************************************)
Poll ==
  /\ worker.phase = "idle"
  /\ LET batch == findPendingBySchedule(alerts, clock)
     IN  worker' = IF Len(batch) = 0 THEN WorkerIdle
                   ELSE [phase |-> "batch", batch |-> batch, ix |-> 1]
  /\ UNCHANGED <<events, ar_state, alerts, requested, dayIx, inflight,
                 futureArMonthsAhead, clock, channel, last>>

DeliverBegin ==
  /\ worker.phase = "batch"
  /\ LET alert == markProcessing(worker.batch[worker.ix])
     IN  /\ alerts' = alertSave(alerts, alert)
         /\ worker' = [worker EXCEPT !.phase = "sending",
                                     !.batch[worker.ix] = alert]
  /\ UNCHANGED <<events, ar_state, requested, dayIx, inflight,
                 futureArMonthsAhead, clock, channel, last>>

\* a loop that leaves its batch at the first delivery that throws
DeliverEndAborts(accepted) ==
  /\ worker.phase = "sending"
  /\ LET alert == worker.batch[worker.ix]
         S == IF accepted THEN markSent(Cur, alert)
              ELSE handleDeliveryFailure(Cur, alert)
     IN  /\ events' = S.events
         /\ alerts' = S.alerts
         /\ channel' = IF accepted THEN Append(channel, alert.alert_id)
                       ELSE channel
         /\ last' = [op |-> "deliverAlert", result |-> S.result]
  /\ worker' = IF worker.ix = Len(worker.batch) \/ ~accepted THEN WorkerIdle
               ELSE [worker EXCEPT !.phase = "batch", !.ix = worker.ix + 1]
  /\ UNCHANGED <<ar_state, requested, dayIx, inflight, futureArMonthsAhead,
                 clock>>

\* accepted: whether telegramClient.sendMessage returned or threw
DeliverEnd(accepted) ==
  /\ worker.phase = "sending"
  /\ LET alert == worker.batch[worker.ix]
         S == IF accepted THEN markSent(Cur, alert)
              ELSE handleDeliveryFailure(Cur, alert)
     IN  /\ events' = S.events
         /\ alerts' = S.alerts
         /\ channel' = IF accepted THEN Append(channel, alert.alert_id)
                       ELSE channel
         /\ last' = [op |-> "deliverAlert", result |-> S.result]
  /\ worker' = IF worker.ix = Len(worker.batch) THEN WorkerIdle
               ELSE [worker EXCEPT !.phase = "batch", !.ix = worker.ix + 1]
  /\ UNCHANGED <<ar_state, requested, dayIx, inflight, futureArMonthsAhead,
                 clock>>

WorkerAdvance ==
  IF worker.ix = Len(worker.batch) THEN WorkerIdle
  ELSE [worker EXCEPT !.phase = "batch", !.ix = worker.ix + 1]

\* deliverAlert between its save of SENT and its append of ALERT_SENT
DeliverEndSaved ==
  /\ worker.phase = "sending"
  /\ LET alert == worker.batch[worker.ix]
     IN  /\ alerts' = saveSent(Cur, alert).alerts
         /\ channel' = Append(channel, alert.alert_id)
         /\ worker' = [worker EXCEPT !.phase = "logging",
                                     !.batch[worker.ix].status = "SENT"]
  /\ UNCHANGED <<events, ar_state, requested, dayIx, inflight,
                 futureArMonthsAhead, clock, last>>

\* appended: whether eventStore.append returned or threw; a throw is caught
\* by deliverAlert's catch, which calls handleDeliveryFailure
LogSent(appended) ==
  /\ worker.phase = "logging"
  /\ LET alert == worker.batch[worker.ix]
         S == IF appended THEN appendSent(Cur, alert)
              ELSE handleDeliveryFailure(Cur, alert)
     IN  /\ events' = S.events
         /\ alerts' = S.alerts
         /\ last' = [op |-> "deliverAlert", result |-> S.result]
  /\ worker' = WorkerAdvance
  /\ UNCHANGED <<ar_state, requested, dayIx, inflight, futureArMonthsAhead,
                 clock, channel>>

Tick ==
  /\ clock < MaxTicks * BaseDelayMinutes
  /\ clock' = clock + BaseDelayMinutes
  /\ UNCHANGED <<events, ar_state, alerts, requested, dayIx, inflight,
                 futureArMonthsAhead, worker, channel, last>>

(***************************************************************************)
(* Two callers whose commands overlap: Load is the command up to and       *)
(* including findById, Write is its append and its snapshot write          *)
(***************************************************************************)
Commands(ar_id) ==
  {[op |-> "ChangeARStatus", ar_id |-> ar_id, new_status |-> s] :
     s \in {"OVERDUE", "WRITTEN_OFF"}}
  \cup {[op |-> "LogFollowUp", ar_id |-> ar_id, notes |-> "called",
         actor_type |-> "SALES"]}
  \cup {[op |-> "VerifyPayment", ar_id |-> ar_id, paid_amount |-> Money,
         payment_date |-> today]}
  \cup {[op |-> "ChangeDueDate", ar_id |-> ar_id,
         new_due_date |-> <<2025, 2, 8>>, reason |-> "import"]}

CommandCheck(snap, dto) ==
  CASE dto.op = "ChangeARStatus" -> ChangeARStatusCheck(snap, dto)
    [] dto.op = "LogFollowUp" -> LogFollowUpCheck(snap, dto)
    [] dto.op = "VerifyPayment" -> VerifyPaymentCheck(snap, dto)
    [] dto.op = "ChangeDueDate" -> ChangeDueDateCheck(snap, dto, today)

CommandWrite(S, snap, dto) ==
  CASE dto.op = "ChangeARStatus" -> ChangeARStatusWrite(S, snap, dto)
    [] dto.op = "LogFollowUp" -> LogFollowUpWrite(S, snap, dto)
    [] dto.op = "VerifyPayment" -> VerifyPaymentWrite(S, snap, dto)
    [] dto.op = "ChangeDueDate" -> ChangeDueDateWrite(S, snap, dto)

Load(p, dto) ==
  /\ inflight[p].phase = "idle"
  /\ LET snap == findById(ar_state, dto.ar_id)
         chk  == CommandCheck(snap, dto)
     IN  /\ inflight' = [inflight EXCEPT ![p] =
                [phase |-> IF chk = "proceed" THEN "loaded" ELSE "done",
                 dto |-> dto, snap |-> snap, result |-> chk]]
         /\ last' = IF chk = "proceed" THEN last
                    ELSE [op |-> dto.op, result |-> chk]
  /\ UNCHANGED <<events, ar_state, alerts, requested, dayIx,
               futureArMonthsAhead, delivery>>

Write(p) ==
  /\ inflight[p].phase = "loaded"
  /\ LET S == CommandWrite(Cur, inflight[p].snap, inflight[p].dto)
     IN  /\ Commit(S, inflight[p].dto.op)
         /\ inflight' = [inflight EXCEPT ![p] =
                [@ EXCEPT !.phase = "done", !.result = S.result]]
  /\ UNCHANGED <<dayIx, futureArMonthsAhead, delivery>>

\* GetARStateQuery.execute: returns the stored snapshot as it is
GetARState(ar_id) ==
  /\ last' = [op |-> "GetARState",
              result |-> IF findById(ar_state, ar_id) = NoAR THEN "null"
                         ELSE "ok"]
  /\ UNCHANGED <<events, ar_state, alerts, requested, dayIx, inflight,
                 futureArMonthsAhead, delivery>>

\* the event kinds with a payload each; the last kind is one the enum lacks
EventKinds ==
  {<<"AR_CREATED", [home_id |-> "B101", customer_name |-> "Dara",
                    amount |-> Money, invoice_date |-> InvoiceDate,
                    due_date |-> <<2025, 1, 31>>,
                    customer_chat_id |-> "chatC", manager_chat_id |-> "chatM",
                    assigned_sales_id |-> "sales1"]>>,
   <<"STATUS_CHANGED", [old_status |-> "PENDING", new_status |-> "OVERDUE"]>>,
   <<"STATUS_CHANGED", [old_status |-> "PENDING", new_status |-> "WRITTEN_OFF"]>>,
   <<"PAYMENT_VERIFIED", [paid_amount |-> Money, payment_date |-> <<2025, 2, 5>>]>>,
   <<"DUE_DATE_CHANGED", [old_due_date |-> <<2025, 1, 31>>,
                          new_due_date |-> <<2025, 2, 8>>]>>,
   <<"FOLLOW_UP_LOGGED", [notes |-> "called"]>>,
   <<"ALERT_QUEUED", [alert_id |-> 1]>>,
   <<"ALERT_SENT", [alert_id |-> 1]>>,
   <<"ALERT_FAILED", [alert_id |-> 1]>>,
   <<"AR_ARCHIVED", [note |-> "later version"]>>}

\* one more event on the sequence handed to replayEvents
FeedEvent(kind) ==
  /\ Len(events) < MaxEvents
  /\ events' = Append(events, NewEvent(events, 1, kind[1], kind[2]))
  /\ ar_state' = <<>>
  /\ last' = [op |-> "FeedEvent", result |-> "ok"]
  /\ UNCHANGED <<alerts, requested, dayIx, inflight, futureArMonthsAhead,
                 delivery>>

\* a call of EventReplayService.replayEvents on the sequence; ar_state
\* collects what the calls returned
Replay ==
  /\ Len(ar_state) < 2
  /\ LET r == replayEvents(events)
     IN  /\ ar_state' = IF r = NoAR THEN ar_state ELSE Append(ar_state, r)
         /\ last' = [op |-> "replayEvents",
                     result |-> IF r = NoAR THEN "InvalidEventSequence"
                                ELSE "ok"]
  /\ UNCHANGED <<events, alerts, requested, dayIx, inflight,
                 futureArMonthsAhead, delivery>>

\* Write when the event store may refuse the append: the handler awaits
\* eventStore.append before it touches the snapshot, so a throw ends it there
WriteAppend(p, appended) ==
  /\ inflight[p].phase = "loaded"
  /\ LET S == IF appended
              THEN CommandWrite(Cur, inflight[p].snap, inflight[p].dto)
              ELSE [Cur EXCEPT !.result = "AppendFailed"]
     IN  /\ Commit(S, inflight[p].dto.op)
         /\ inflight' = [inflight EXCEPT ![p] =
                [@ EXCEPT !.phase = "done", !.result = S.result]]
  /\ UNCHANGED <<dayIx, futureArMonthsAhead, delivery>>

(***************************************************************************)
(* Specifications                                                          *)
(***************************************************************************)
\* the command layer, one command at a time
Next ==
  \/ \E d \in DueDates : CreateAR("B101", d, <<"chatC", "chatM">>)
  \/ \E a \in ARIds, s \in Statuses : ChangeARStatus(a, s)
  \/ \E a \in ARIds : LogFollowUp(a)
  \/ \E a \in ARIds : VerifyPayment(a)
  \/ \E a \in ARIds, d \in DueDates : ChangeDueDate(a, d)
  \/ \E i \in 1..MaxEvents : AppendDuplicate(i)

Spec == Init /\ [][Next]_vars

\* the notification queue fed by direct enqueues
NextQueue ==
  \/ \E h \in Homes, d \in DueDates, c \in ChatConfigs : CreateAR(h, d, c)
  \/ \E a \in ARIds, k \in BOOLEAN : QueueAlert(a, k)
  \/ \E a \in ARIds : LogFollowUp(a)

SpecQueue == Init /\ [][NextQueue]_vars

\* the daily sweep over ARs that callers create and re-open
NextSweep ==
  \/ \E h \in Homes, d \in DueDates, c \in ChatConfigs : CreateAR(h, d, c)
  \/ \E a \in ARIds, s \in {"PENDING", "WRITTEN_OFF"} : ChangeARStatus(a, s)
  \/ Sweep
  \/ AdvanceDay

SpecSweep == InitSweep /\ [][NextSweep]_vars

\* overlapping commands of two callers
NextConc ==
  \/ \E d \in DueDates : CreateAR("B101", d, <<"chatC", "chatM">>)
  \/ \E p \in Procs, a \in ARIds : \E dto \in Commands(a) : Load(p, dto)
  \/ \E p \in Procs : Write(p)

SpecConc == Init /\ [][NextConc]_vars

\* payments and the next-month routine
NextPay ==
  \/ \E h \in Homes, d \in DueDates, c \in ChatConfigs : CreateAR(h, d, c)
  \/ \E a \in ARIds : VerifyPayment(a)
  \/ \E a \in ARIds : CreateNextMonthAR(a)
  \/ \E a \in ARIds : LogFollowUp(a)

SpecPay == Init /\ [][NextPay]_vars

\* the delivery loop over alerts that callers enqueue
NextDelivery ==
  \/ CreateAR("B101", <<2025, 2, 5>>, <<"chatC", "chatM">>)
  \/ \E a \in ARIds : QueueAlert(a, TRUE)
  \/ Poll
  \/ DeliverBegin
  \/ \E accepted \in BOOLEAN : DeliverEnd(accepted)
  \/ Tick

SpecDelivery == Init /\ [][NextDelivery]_vars

\* the delivery loop with a channel call that always ends: sendMessage
\* returns, or throws, its timeout being one of the throws
SpecDeliveryFair ==
  /\ Init
  /\ [][NextDelivery]_vars
  /\ WF_vars(\E accepted \in BOOLEAN : DeliverEnd(accepted))

\* the delivery loop over alerts of alternating types, the lower priority
\* enqueued first, and over a queue longer than a batch; refused attempts
\* and the passing of time are followed on queues of up to MaxAlerts alerts
NextPoll ==
  \/ CreateAR("B101", <<2025, 2, 5>>, <<"chatC", "chatM">>)
  \/ \E a \in ARIds :
       QueueAlertOf(a, IF Len(alerts) % 2 = 0 THEN "PRE_ALERT" ELSE "ESCALATION")
  \/ \E a \in ARIds : QueueBurst(a)
  \/ Poll
  \/ DeliverBegin
  \/ \E accepted \in BOOLEAN :
       (accepted \/ Len(alerts) <= MaxAlerts) /\ DeliverEnd(accepted)
  \/ Len(alerts) <= MaxAlerts /\ Tick

SpecPoll == Init /\ [][NextPoll]_vars

\* the loop polls every 10 seconds and the clock of the model steps by the
\* base delay of 5 minutes: a step of the clock finds the loop idle with no
\* alert due
TickIdle ==
  /\ worker.phase = "idle"
  /\ Len(findPendingBySchedule(alerts, clock)) = 0
  /\ Tick

\* the delivery loop that keeps polling over a channel whose calls all end;
\* an alert is enqueued while the clock of the model has room for its two
\* backoff delays (1 + 2 base delays)
NextDeliveryLive ==
  \/ CreateAR("B101", <<2025, 2, 5>>, <<"chatC", "chatM">>)
  \/ \E a \in ARIds :
       /\ clock + 3 * BaseDelayMinutes <= MaxTicks * BaseDelayMinutes
       /\ QueueAlert(a, TRUE)
  \/ Poll
  \/ DeliverBegin
  \/ \E accepted \in BOOLEAN : DeliverEnd(accepted)
  \/ TickIdle

SpecDeliveryLive ==
  /\ Init
  /\ [][NextDeliveryLive]_vars
  /\ WF_vars(Poll)
  /\ WF_vars(DeliverBegin)
  /\ WF_vars(\E accepted \in BOOLEAN : DeliverEnd(accepted))
  /\ WF_vars(TickIdle)

\* the delivery loop when the event store may refuse the ALERT_SENT event
NextDeliveryFaults ==
  \/ NextDelivery
  \/ DeliverEndSaved
  \/ \E appended \in BOOLEAN : LogSent(appended)

SpecDeliveryFaults == Init /\ [][NextDeliveryFaults]_vars

\* overlapping commands over an event store that may refuse an append
NextFault ==
  \/ CreateAR("B101", <<2025, 2, 5>>, <<"chatC", "chatM">>)
  \/ \E p \in Procs, a \in ARIds : \E dto \in Commands(a) : Load(p, dto)
  \/ \E p \in Procs, appended \in BOOLEAN : WriteAppend(p, appended)

SpecFault == Init /\ [][NextFault]_vars

\* the daily sweep over stores that may throw in one call of a run
NextSweepFault ==
  \/ \E d \in DueDates, c \in {<<"chatC", NoChat>>, <<NoChat, NoChat>>} :
       CreateAR("B101", d, c)
  \/ Sweep
  \/ \E fault \in Faults : SweepFault(fault)
  \/ AdvanceDay

SpecSweepFault == InitSweep /\ [][NextSweepFault]_vars

\* two sweep runs that may overlap, and payments verified meanwhile
NextSweepSteps ==
  \/ \E d \in DueDates, c \in {<<"chatC", NoChat>>, <<NoChat, NoChat>>} :
       CreateAR("B101", d, c)
  \/ \E a \in ARIds : VerifyPayment(a)
  \/ \E p \in Procs : SweepBegin(p)
  \/ \E p \in Procs : SweepPromote(p)
  \/ \E p \in Procs : SweepAlerts(p)
  \/ \E p \in Procs : FutureCheck(p)
  \/ \E p \in Procs : FutureCreate(p)

SpecSweepSteps == InitSweep /\ [][NextSweepSteps]_vars

\* overlapping commands, then reads and daily sweeps for as long as one likes
NextHeal ==
  \/ CreateAR("B101", <<2025, 2, 6>>, <<"chatC", "chatM">>)
  \/ \E p \in Procs, a \in ARIds : \E dto \in Commands(a) :
       dto.op # "ChangeARStatus" /\ Load(p, dto)
  \/ \E p \in Procs : Write(p)
  \/ \E a \in 1..MaxAR : GetARState(a)
  \/ Sweep

\* ENABLED <<Sweep>>_vars, computed from run
SweepEnabled ==
  LET S == run(Cur, today)
  IN  /\ Fits(S)
      /\ <<S.events, S.ar_state, S.alerts, S.requested,
            [op |-> "Sweep", result |-> S.result]>>
           # <<events, ar_state, alerts, requested, last>>

\* reads keep arriving and the sweep runs on its schedule: weak fairness of
\* every read and of the sweep, the latter written out over SweepEnabled
SpecHeal ==
  /\ Init
  /\ [][NextHeal]_vars
  /\ \A a \in 1..MaxAR : WF_vars(GetARState(a))
  /\ ([]<>(~SweepEnabled) \/ []<><<Sweep>>_vars)

\* replayEvents on every sequence of events up to MaxEvents long
NextReplay ==
  \/ \E kind \in EventKinds : FeedEvent(kind)
  \/ Replay

SpecReplay == Init /\ [][NextReplay]_vars

\* the command layer fed well-formed and malformed requests
NextSubmit == \E dto \in Requests : Submit(dto)

SpecSubmit == Init /\ [][NextSubmit]_vars

(***************************************************************************)
(* Properties                                                              *)
(***************************************************************************)
NewEvents == {i \in 1..Len(events') : i > Len(events)}
NewAlerts == {i \in 1..Len(alerts') : i > Len(alerts)}

\* C1: for every AR the stored snapshot equals replayEvents of that AR's
\* events read from the log in timestamp order.  The version field, which
\* the store and not the fold maintains, is left out of the comparison.
C1_SnapshotEqualsReplay ==
  \A a \in ARIds :
    LET r == replayEvents(getEventsForAR(events, a))
    IN  /\ r # NoAR
        /\ [ar_state[a] EXCEPT !.version = r.version] = r

\* C2: the event log only grows: no step removes or changes a stored event,
\* and appending an event whose identity is already stored leaves the log
\* as it was and reports success to the caller.
C2_AppendOnly ==
  [][/\ Len(events') >= Len(events)
     /\ \A i \in 1..Len(events) : events'[i] = events[i]
     /\ \A i \in 1..Len(events) :
          AppendDuplicate(i) => (events' = events /\ last'.result = "ok")]_vars

C2_Witness ==
  /\ last.op = "AppendDuplicate"
  /\ last.result = "ok"
  /\ Len(events) >= 2

\* C3: of two commands on the same AR that loaded the snapshot at the same
\* version and both attempted their write, at most one write succeeds.
\* Stated for the commands whose write is repository save (follow-up,
\* verify-payment, change-due-date).
C3_AtMostOneWriteSucceeds ==
  \A p, q \in Procs :
    (/\ p # q
     /\ inflight[p].phase = "done"
     /\ inflight[q].phase = "done"
     /\ inflight[p].dto.op # "ChangeARStatus"
     /\ inflight[q].dto.op # "ChangeARStatus"
     /\ inflight[p].result \in {"ok", "ConcurrentModification"}
     /\ inflight[q].result \in {"ok", "ConcurrentModification"}
     /\ inflight[p].dto.ar_id = inflight[q].dto.ar_id
     /\ inflight[p].snap.version = inflight[q].snap.version)
    => ~(inflight[p].result = "ok" /\ inflight[q].result = "ok")

\* C4: no two persisted alert intents were enqueued with the same non-null
\* dedup key.
C4_OneIntentPerDedupKey ==
  \A i, j \in 1..Len(alerts) :
    (i < j /\ requested[i] # NoKey) => requested[i] # requested[j]

\* C5: a sweep that directly follows a sweep of the same day leaves the set
\* of persisted alerts as the first one left it.
C5_SecondSweepAddsNoAlert ==
  [][(last.op = "Sweep" /\ Sweep) => alerts' = alerts]_vars

NewAlertCount(a, alert_type, target_type) ==
  Cardinality({i \in NewAlerts : /\ alerts'[i].ar_id = a
                                 /\ alerts'[i].alert_type = alert_type
                                 /\ alerts'[i].target_type = target_type})

DaysOverdue(a) == DayNum(today) - DayNum(ar_state[a].due_date)

\* C6: a sweep enqueues, for an AR that is PENDING at its start and 5 days
\* overdue, exactly one ESCALATION alert per role (customer, manager) that
\* has an address, and for one 7 days overdue also exactly one OVERDUE alert.
C6_EscalationWindow ==
  [][Sweep =>
      \A a \in ARIds :
        (ar_state[a].current_status = "PENDING" /\ DaysOverdue(a) \in {5, 7}) =>
          /\ ar_state[a].customer_chat_id # NoChat =>
               NewAlertCount(a, "ESCALATION", "CUSTOMER") = 1
          /\ ar_state[a].manager_chat_id # NoChat =>
               NewAlertCount(a, "ESCALATION", "MANAGER") = 1
          /\ (DaysOverdue(a) = 7 /\ ar_state[a].customer_chat_id # NoChat) =>
               NewAlertCount(a, "OVERDUE", "CUSTOMER") = 1]_vars

PastDue == {a \in ARIds : /\ ar_state[a].current_status = "PENDING"
                          /\ DateLT(ar_state[a].due_date, today)}

NewStatusChanged == {i \in NewEvents : events'[i].event_type = "STATUS_CHANGED"}

\* C7: a sweep moves every AR that is PENDING with due date before today to
\* OVERDUE and appends exactly one STATUS_CHANGED event for each of them and
\* for no other AR; a sweep that directly follows a sweep of the same day
\* appends no STATUS_CHANGED event.
C7_OverduePromotion ==
  [][Sweep =>
      /\ \A a \in PastDue :
           /\ ar_state'[a].current_status = "OVERDUE"
           /\ Cardinality({i \in NewStatusChanged :
                             /\ events'[i].ar_id = a
                             /\ events'[i].payload.new_status = "OVERDUE"}) = 1
      /\ Cardinality(NewStatusChanged) = Cardinality(PastDue)
      /\ last.op = "Sweep" => NewStatusChanged = {}]_vars

C7_Witness ==
  /\ last.op = "Sweep"
  /\ \E i, j \in 1..Len(events) :
       /\ i < j
       /\ events[i].ar_id # events[j].ar_id
       /\ \A k \in {i, j} :
            /\ events[k].event_type = "STATUS_CHANGED"
            /\ events[k].payload.new_status = "OVERDUE"
            /\ ar_state[events[k].ar_id].current_status = "OVERDUE"

\* C8: change-status with the status the AR already has appends no event and
\* leaves the snapshot, its version included, as it was.
C8_StatusNoOp ==
  [][\A a \in ARIds, s \in Statuses :
       (ChangeARStatus(a, s) /\ ar_state[a].current_status = s) =>
         /\ events' = events
         /\ ar_state' = ar_state
         /\ last'.result = "noop"]_vars

C8_Witness ==
  /\ last.op = "ChangeARStatus"
  /\ last.result = "noop"
  /\ \E a \in ARIds : ar_state[a].version > 1

\* C9: verify-payment on an AR that is not PAID leaves it PAID with the
\* payment date as paid date and creates exactly one AR, for the same
\* billable entity, due addMonths(due date, 1).
C9_VerifyCreatesNextAR ==
  [][\A a \in ARIds :
       (VerifyPayment(a) /\ ar_state[a].current_status # "PAID") =>
         /\ ar_state'[a].current_status = "PAID"
         /\ ar_state'[a].paid_date = today
         /\ Len(ar_state') = Len(ar_state) + 1
         /\ ar_state'[Len(ar_state')].home_id = ar_state[a].home_id
         /\ ar_state'[Len(ar_state')].due_date =
              addMonths(ar_state[a].due_date, 1)]_vars

\* C10: verify-payment on an AR that is PAID fails with AlreadyPaid, appends
\* no event, changes no snapshot and creates no AR.
C10_AlreadyPaid ==
  [][\A a \in ARIds :
       (VerifyPayment(a) /\ ar_state[a].current_status = "PAID") =>
         /\ last'.result = "AlreadyPaid"
         /\ events' = events
         /\ ar_state' = ar_state
         /\ alerts' = alerts]_vars

C10_Witness ==
  /\ last.op = "VerifyPayment"
  /\ last.result = "AlreadyPaid"
  /\ \E a \in ARIds : ar_state[a].current_status = "PAID"

\* the outcome of the next-month routine as verify-payment calls it for AR a
NextMonthCall(a) ==
  CreateNextMonthARExecute(Cur, [paid_ar_id |-> a, payment_date |-> NoDate])

\* C11: when the next-month routine fails inside verify-payment, the command
\* still succeeds: its PAYMENT_VERIFIED event is in the log and the snapshot
\* is PAID with the payment date as paid date.
C11_NextARFailureTolerated ==
  [][\A a \in ARIds :
       (/\ VerifyPayment(a)
        /\ ar_state[a].current_status # "PAID"
        /\ NextMonthCall(a).result # "ok") =>
         /\ last'.result = "ok"
         /\ Len(events') = Len(events) + 1
         /\ events'[Len(events')].event_type = "PAYMENT_VERIFIED"
         /\ events'[Len(events')].ar_id = a
         /\ ar_state'[a].current_status = "PAID"
         /\ ar_state'[a].paid_date = today]_vars

C11_Witness ==
  /\ last.op = "VerifyPayment"
  /\ last.result = "ok"
  /\ \E a \in ARIds :
       /\ ar_state[a].current_status = "PAID"
       /\ ar_state[a].paid_date # NoDate
       /\ NextMonthCall(a).result # "ok"
       /\ events[Len(events)].event_type = "PAYMENT_VERIFIED"
       /\ events[Len(events)].ar_id = a

NextMonthExisting(a) ==
  findByHomeIdAndDueDate(ar_state, ar_state[a].home_id,
                         addMonths(ar_state[a].due_date, 1))

\* C12: the next-month routine invoked for an AR whose next-month record does
\* not exist creates exactly one AR for (billable entity, next due date);
\* invoked when that record exists it returns the record's identity, appends
\* no event and creates no AR.  So two invocations create one AR.
C12_NextARIdempotent ==
  [][\A a \in ARIds :
       CreateNextMonthAR(a) =>
         IF NextMonthExisting(a) # NoAR
         THEN /\ events' = events
              /\ ar_state' = ar_state
              /\ last'.result = "ok"
              /\ CreateNextMonthARExecute(Cur,
                   [paid_ar_id |-> a, payment_date |-> today]).ar_id
                 = NextMonthExisting(a).ar_id
         ELSE /\ Len(ar_state') = Len(ar_state) + 1
              /\ ar_state'[Len(ar_state')].home_id = ar_state[a].home_id
              /\ ar_state'[Len(ar_state')].due_date =
                   addMonths(ar_state[a].due_date, 1)
              /\ Len(events') = Len(events) + 1]_vars

C12_Witness ==
  /\ last.op = "CreateNextMonthAR"
  /\ last.result = "ok"
  /\ \E a \in ARIds :
       /\ NextMonthExisting(a) # NoAR
       /\ Cardinality({b \in ARIds :
                         /\ ar_state[b].home_id = ar_state[a].home_id
                         /\ ar_state[b].due_date =
                              addMonths(ar_state[a].due_date, 1)}) = 1
       /\ Len(events) = Len(ar_state)

AlertEvents(alert_id, event_type) ==
  {i \in 1..Len(events) : /\ events[i].event_type = event_type
                          /\ events[i].payload.alert_id = alert_id}

AlertIds == 1..Len(alerts)

\* C13: an alert that is SENT after k failed attempts has attempts = k + 1
\* <= max_attempts, exactly k ALERT_FAILED events and exactly one ALERT_SENT
\* event; every attempt starts from QUEUED, passes through PROCESSING and
\* ends from PROCESSING.
C13_RetryThenSent ==
  /\ [](\A id \in AlertIds :
          /\ Cardinality(AlertEvents(id, "ALERT_FAILED"))
               + Cardinality(AlertEvents(id, "ALERT_SENT"))
             = alerts[id].attempts
                 - (IF alerts[id].status = "PROCESSING" THEN 1 ELSE 0)
          /\ alerts[id].status = "SENT" =>
               /\ Cardinality(AlertEvents(id, "ALERT_SENT")) = 1
               /\ Cardinality(AlertEvents(id, "ALERT_FAILED"))
                    = alerts[id].attempts - 1
               /\ alerts[id].attempts <= alerts[id].max_attempts)
  /\ [][/\ DeliverBegin =>
             LET id == worker.batch[worker.ix].alert_id
             IN  /\ alerts[id].status = "QUEUED"
                 /\ alerts'[id].status = "PROCESSING"
                 /\ alerts'[id].attempts = alerts[id].attempts + 1
        /\ (\E accepted \in BOOLEAN : DeliverEnd(accepted)) =>
             alerts[worker.batch[worker.ix].alert_id].status = "PROCESSING"]_vars

C13_Witness ==
  \E id \in AlertIds :
    /\ alerts[id].status = "SENT"
    /\ alerts[id].attempts = 3
    /\ Cardinality(AlertEvents(id, "ALERT_FAILED")) = 2
    /\ Cardinality(AlertEvents(id, "ALERT_SENT")) = 1

\* C14: a failed attempt leaves the alert QUEUED with a later scheduled_for
\* while attempts < max_attempts and FAILED once attempts = max_attempts;
\* always attempts <= max_attempts = 3, and FAILED only with attempts =
\* max_attempts.
C14_RetryOrFail ==
  /\ [](\A id \in AlertIds :
          /\ alerts[id].max_attempts = 3
          /\ alerts[id].attempts <= alerts[id].max_attempts
          /\ alerts[id].status = "FAILED" =>
               alerts[id].attempts = alerts[id].max_attempts)
  /\ [][DeliverEnd(FALSE) =>
          LET id == worker.batch[worker.ix].alert_id
          IN  IF alerts[id].attempts < alerts[id].max_attempts
              THEN /\ alerts'[id].status = "QUEUED"
                   /\ alerts'[id].scheduled_for > alerts[id].scheduled_for
                   /\ alerts'[id].scheduled_for > clock
              ELSE alerts'[id].status = "FAILED"]_vars

C14_Witness ==
  \E id \in AlertIds :
    /\ alerts[id].status = "FAILED"
    /\ alerts[id].attempts = 3
    /\ Cardinality(AlertEvents(id, "ALERT_FAILED")) = 3

AlertTransitions ==
  {<<"QUEUED", "PROCESSING">>, <<"PROCESSING", "SENT">>,
   <<"PROCESSING", "QUEUED">>, <<"PROCESSING", "FAILED">>}

\* C15: an alert's status changes only QUEUED -> PROCESSING, PROCESSING ->
\* SENT, PROCESSING -> QUEUED or PROCESSING -> FAILED; a stored alert is never
\* removed; an alert that is SENT or FAILED keeps that status.
C15_AlertLifecycle ==
  [][/\ Len(alerts') >= Len(alerts)
     /\ \A id \in AlertIds :
          \/ alerts'[id].status = alerts[id].status
          \/ <<alerts[id].status, alerts'[id].status>> \in AlertTransitions
     /\ \A id \in 1..Len(alerts') :
          id \notin AlertIds => alerts'[id].status = "QUEUED"]_vars

SendCount(id) == Cardinality({i \in 1..Len(channel) : channel[i] = id})

\* C16: the channel accepts at most one message per alert; an alert whose
\* message was accepted is not QUEUED, is not selected by a poll and is not
\* among the alerts the loop still has to deliver.
C16_AtMostOneSend ==
  \A id \in AlertIds :
    /\ SendCount(id) <= 1
    /\ SendCount(id) = 1 =>
         /\ alerts[id].status = "SENT"
         /\ \A i \in 1..Len(findPendingBySchedule(alerts, clock)) :
              findPendingBySchedule(alerts, clock)[i].alert_id # id
         /\ \A i \in 1..Len(worker.batch) :
              (worker.batch[i].alert_id = id) => i < worker.ix

C16_Witness ==
  /\ Len(channel) = 2
  /\ clock >= BaseDelayMinutes
  /\ worker.phase = "idle"
  /\ \A id \in AlertIds : SendCount(id) = 1

RetryDelay == <<5, 10, 20>>

\* C17: with base delay 5 minutes the retry time computed for attempts = 1,
\* 2, 3 is 5, 10, 20 minutes after the failure, and an alert put back to
\* QUEUED after its k-th attempt failed is scheduled that long after the
\* failure.
C17_Backoff ==
  /\ \A k \in 1..3 :
       getNextRetryTime([attempts |-> k], clock) = clock + RetryDelay[k]
  /\ \A k \in 1..2 :
       RetryDelay[k + 1] = 2 * RetryDelay[k]
  /\ \A id \in AlertIds :
       (alerts[id].status = "QUEUED" /\ alerts[id].attempts >= 1) =>
         \E i \in AlertEvents(id, "ALERT_FAILED") :
           /\ events[i].payload.attempts = alerts[id].attempts
           /\ alerts[id].scheduled_for =
                events[i].payload.failed_at + RetryDelay[alerts[id].attempts]

C17_Witness ==
  \E id \in AlertIds :
    /\ alerts[id].status = "QUEUED"
    /\ alerts[id].attempts = 2
    /\ alerts[id].scheduled_for = 3 * BaseDelayMinutes

\* the requests the handlers have to reject
Rejected(dto) ==
  IF dto.op = "CreateAR"
  THEN \/ dto.amount.value <= 0
       \/ dto.amount.currency = ""
       \/ dto.customer_name = ""
       \/ DayNum(dto.due_date) < DayNum(dto.invoice_date)
  ELSE \/ dto.ar_id \notin ARIds
       \/ dto.op = "ChangeARStatus" /\ dto.new_status \notin Statuses
       \/ dto.op = "LogFollowUp"
            /\ (dto.notes = "" \/ dto.actor_type \notin {"MANAGER", "SALES"})
       \/ dto.op = "ChangeDueDate"
            /\ DayNum(dto.new_due_date) < DayNum(today) - 30

\* C18: a command rejected for invalid input, for a business rule or for an
\* unknown AR reports a rejection, appends no event and changes no snapshot.
C18_RejectedChangesNothing ==
  [][\A dto \in Requests :
       (Submit(dto) /\ Rejected(dto)) =>
         /\ last'.result \in {"ValidationError", "NotFound"}
         /\ events' = events
         /\ ar_state' = ar_state]_vars

C18_Witness ==
  /\ Len(ar_state) = 1
  /\ Len(events) = 2
  /\ last.op = "ChangeDueDate"
  /\ last.result = "ValidationError"

\* C19: a command appends its event before it attempts the snapshot write:
\* when the snapshot write fails with a concurrency conflict the command's
\* event is already in the log, a snapshot changes only in a step that also
\* appends, and when the append fails no snapshot has changed.
C19_AppendBeforeSnapshot ==
  [][\A p \in Procs, appended \in BOOLEAN :
       WriteAppend(p, appended) =>
         /\ inflight'[p].result = "ConcurrentModification" =>
              /\ Len(events') = Len(events) + 1
              /\ events'[Len(events')].ar_id = inflight[p].dto.ar_id
              /\ ar_state' = ar_state
         /\ ar_state' # ar_state => Len(events') = Len(events) + 1
         /\ inflight'[p].result = "AppendFailed" =>
              /\ events' = events
              /\ ar_state' = ar_state]_vars

C19_Witness ==
  \E p, q \in Procs :
    /\ inflight[p].phase = "done"
    /\ inflight[p].result = "ConcurrentModification"
    /\ \E i \in 1..Len(events) : events[i].ar_id = inflight[p].dto.ar_id
                                  /\ events[i].event_type # "AR_CREATED"
    /\ inflight[q].phase = "done"
    /\ inflight[q].result = "AppendFailed"

WriteFailed(a) ==
  \E p \in Procs :
    /\ inflight[p].phase = "done"
    /\ inflight[p].result = "ConcurrentModification"
    /\ inflight[p].dto.ar_id = a

SnapshotIsFold(a) ==
  LET r == replayEvents(getEventsForAR(events, a))
  IN  /\ r # NoAR
      /\ [ar_state[a] EXCEPT !.version = r.version] = r

ActiveOf(h) ==
  {a \in ARIds : ar_state[a].home_id = h
                   /\ ar_state[a].current_status # "WRITTEN_OFF"}

\* the latest due date among the non-written-off ARs of a home
LatestDueOf(h) ==
  LET a == CHOOSE x \in ActiveOf(h) :
             \A y \in ActiveOf(h) :
               DayNum(ar_state[y].due_date) <= DayNum(ar_state[x].due_date)
  IN  ar_state[a].due_date

\* the first due date after today on the monthly series through base
FirstDueAfterToday(base) ==
  LET n == CHOOSE k \in 0..24 :
             /\ DayNum(addMonths(base, k)) > DayNum(today)
             /\ \A j \in 0..(k - 1) :
                  DayNum(addMonths(base, j)) <= DayNum(today)
  IN  addMonths(base, n)

RecordsAt(st, h, due) ==
  {a \in 1..Len(st) : st[a].home_id = h /\ st[a].due_date = due}

C22_ResweepAddsNoAR ==
  [][(last.op = "Sweep" /\ Sweep) =>
       \A h \in Homes :
         Cardinality({a \in 1..Len(ar_state') : ar_state'[a].home_id = h})
           = Cardinality({a \in ARIds : ar_state[a].home_id = h})]_vars

\* C23: an AR's snapshot status is PAID only if a PAYMENT_VERIFIED event for
\* that AR is in the event log.
C23_PaidOnlyIfVerified ==
  \A a \in ARIds :
    ar_state[a].current_status = "PAID" =>
      \E i \in 1..Len(events) : /\ events[i].ar_id = a
                                /\ events[i].event_type = "PAYMENT_VERIFIED"

\* C24: whenever a sweep enqueues an alert to the CUSTOMER of an AR that has
\* a manager address, the same sweep enqueues an alert of the same type for
\* that AR to the MANAGER.
C24_ManagerCopy ==
  [][Sweep =>
       \A i \in NewAlerts :
         (/\ alerts'[i].target_type = "CUSTOMER"
          /\ ar_state[alerts'[i].ar_id].manager_chat_id # NoChat) =>
           \E j \in NewAlerts :
             /\ alerts'[j].ar_id = alerts'[i].ar_id
             /\ alerts'[j].alert_type = alerts'[i].alert_type
             /\ alerts'[j].target_type = "MANAGER"]_vars

Processing(id) == id \in AlertIds /\ alerts[id].status = "PROCESSING"

C26_ChangeDueDate ==
  [][\A a \in ARIds, d \in DueDates :
       ChangeDueDate(a, d) =>
         IF d = ar_state[a].due_date
         THEN events' = events /\ ar_state' = ar_state
         ELSE DayNum(d) >= DayNum(today) - 30 =>
                /\ last'.result = "ok"
                /\ Len(events') = Len(events) + 1
                /\ events'[Len(events')].event_type = "DUE_DATE_CHANGED"
                /\ events'[Len(events')].ar_id = a
                /\ ar_state'[a].due_date = d]_vars

Prefix(n) == replayEvents(SubSeq(events, 1, n))

\* C28: replayEvents of a sequence that starts with AR_CREATED counts every
\* event (event_count is the length, last_event_id and last_event_at are
\* the last element's); the status after the creation event is PENDING; an
\* alert event or an event of an unknown kind leaves status, due date and
\* paid date as they were; PAYMENT_VERIFIED sets PAID whatever the status.
C28_ReplayCounts ==
  (Len(events) > 0 /\ events[1].event_type = "AR_CREATED") =>
    /\ Prefix(1).current_status = "PENDING"
    /\ \A n \in 1..Len(events) :
         /\ Prefix(n).event_count = n
         /\ Prefix(n).last_event_id = events[n].event_id
         /\ Prefix(n).last_event_at = events[n].timestamp
    /\ \A n \in 2..Len(events) :
         /\ events[n].event_type \in
              {"ALERT_QUEUED", "ALERT_SENT", "ALERT_FAILED", "AR_ARCHIVED"} =>
                /\ Prefix(n).current_status = Prefix(n - 1).current_status
                /\ Prefix(n).due_date = Prefix(n - 1).due_date
                /\ Prefix(n).paid_date = Prefix(n - 1).paid_date
         /\ events[n].event_type = "PAYMENT_VERIFIED" =>
              Prefix(n).current_status = "PAID"
    /\ \A i \in 1..Len(ar_state) : ar_state[i] = Prefix(Len(events))

C28_Witness ==
  /\ Len(events) = 4
  /\ events[2].event_type = "STATUS_CHANGED"
  /\ events[3].event_type = "PAYMENT_VERIFIED"
  /\ events[4].event_type = "AR_ARCHIVED"
  /\ Len(ar_state) = 1
  /\ ar_state[1].current_status = "PAID"
  /\ ar_state[1].event_count = 4

C30_FollowUpFrame ==
  [][\A a \in ARIds :
       LogFollowUp(a) =>
         /\ Len(events') = Len(events) + 1
         /\ \A i \in 1..Len(events) : events'[i] = events[i]
         /\ events'[Len(events')].event_type = "FOLLOW_UP_LOGGED"
         /\ events'[Len(events')].ar_id = a
         /\ ar_state' =
              [ar_state EXCEPT ![a] =
                 [@ EXCEPT !.last_event_id = events'[Len(events')].event_id,
                           !.last_event_at = events'[Len(events')].timestamp,
                           !.event_count = @ + 1,
                           !.version = @ + 1]]]_vars

C30_Witness ==
  /\ last.op = "LogFollowUp"
  /\ last.result = "ok"
  /\ \E a \in ARIds :
       /\ ar_state[a].current_status = "PAID"
       /\ ar_state[a].assigned_sales_id = "sales1"
       /\ ar_state[a].last_event_id = Len(events)
       /\ events[Len(events)].event_type = "FOLLOW_UP_LOGGED"
       /\ ar_state[a].event_count = 3
       /\ ar_state[a].version = 3

\* C31: a poll takes only alerts that are stored as QUEUED with scheduled_for
\* not after the poll time, ordered by descending priority and, among equal
\* priorities, ascending scheduled_for, and never more than BatchLimit of
\* them; an attempt starts only on an alert that is stored as QUEUED with
\* scheduled_for not after the current time, so a retry is not attempted
\* before the time its backoff set.
C31_PollSelection ==
  [][/\ Poll =>
          LET batch == worker'.batch
          IN  /\ Len(batch) <= BatchLimit
              /\ \A i \in 1..Len(batch) :
                   /\ \E k \in 1..Len(alerts) : alerts[k] = batch[i]
                   /\ batch[i].status = "QUEUED"
                   /\ batch[i].scheduled_for <= clock
              /\ \A i, j \in 1..Len(batch) :
                   i < j =>
                     \/ batch[i].priority > batch[j].priority
                     \/ /\ batch[i].priority = batch[j].priority
                        /\ batch[i].scheduled_for <= batch[j].scheduled_for
     /\ DeliverBegin =>
          LET id == worker.batch[worker.ix].alert_id
          IN  /\ alerts[id].status = "QUEUED"
              /\ alerts[id].scheduled_for <= clock
              /\ alerts'[id].attempts = alerts[id].attempts + 1]_vars

\* a poll over BatchLimit + 1 due alerts took BatchLimit of them, the
\* higher priority first, and left a due alert in the queue
C31_Witness ==
  /\ worker.phase = "batch"
  /\ worker.ix = 1
  /\ Len(worker.batch) = BatchLimit
  /\ Len(alerts) = BatchLimit + 1
  /\ worker.batch[1].priority > worker.batch[BatchLimit].priority
  /\ \E k \in 1..Len(alerts) :
       /\ alerts[k].status = "QUEUED"
       /\ alerts[k].scheduled_for <= clock
       /\ \A i \in 1..Len(worker.batch) : worker.batch[i].alert_id # k

\* C32: a delivery that throws has, when the poller sees the error, stored
\* the alert as QUEUED or FAILED and appended one ALERT_FAILED event for it;
\* the poller then goes on to the next alert of its batch, and a batch ends
\* only when every alert of it has been attempted.
C32_FailureDoesNotStopBatch ==
  [][/\ DeliverEnd(FALSE) =>
          LET id == worker.batch[worker.ix].alert_id
          IN  /\ last' = [op |-> "deliverAlert", result |-> "failed"]
              /\ alerts'[id].status \in {"QUEUED", "FAILED"}
              /\ Len(events') = Len(events) + 1
              /\ events'[Len(events')].event_type = "ALERT_FAILED"
              /\ events'[Len(events')].payload.alert_id = id
              /\ worker.ix < Len(worker.batch) =>
                   worker' = [phase |-> "batch", batch |-> worker.batch,
                              ix |-> worker.ix + 1]
     /\ (worker.phase # "idle" /\ worker'.phase = "idle") =>
          \A i \in 1..Len(worker.batch) :
            /\ worker.batch[i].status = "PROCESSING"
            /\ alerts'[worker.batch[i].alert_id].attempts
                 >= worker.batch[i].attempts]_vars

\* the first alert of a batch of two was refused and requeued, and the
\* second one is being sent
C32_Witness ==
  /\ worker.phase = "sending"
  /\ worker.ix = 2
  /\ alerts[worker.batch[1].alert_id].status = "QUEUED"
  /\ alerts[worker.batch[1].alert_id].attempts = 1
  /\ alerts[worker.batch[1].alert_id].scheduled_for > clock
  /\ alerts[worker.batch[2].alert_id].status = "PROCESSING"
  /\ \E i \in 1..Len(events) :
       /\ events[i].event_type = "ALERT_FAILED"
       /\ events[i].payload.alert_id = worker.batch[1].alert_id

\* C33: a sweep in which the change-status command of one AR throws still
\* completes, and every other AR that was PENDING with its due date before
\* today is OVERDUE after it, with its STATUS_CHANGED event in the log.
C33_PromotionFailureIsolated ==
  [][\A fault \in Faults :
       (fault.step = "promote" /\ SweepFault(fault)) =>
         /\ last'.result = "ok"
         /\ \A a \in PastDue \ {fault.ar_id} :
              /\ ar_state'[a].current_status = "OVERDUE"
              /\ \E i \in NewStatusChanged :
                   /\ events'[i].ar_id = a
                   /\ events'[i].payload.new_status = "OVERDUE"]_vars

\* after a sweep the AR with the earlier due date is still PENDING, its
\* command having thrown, and the AR after it in the loop is OVERDUE
C33_Witness ==
  /\ last = [op |-> "Sweep", result |-> "ok"]
  /\ \E a, b \in ARIds :
       /\ DateLT(ar_state[a].due_date, ar_state[b].due_date)
       /\ DateLT(ar_state[b].due_date, today)
       /\ ar_state[a].current_status = "PENDING"
       /\ ar_state[b].current_status = "OVERDUE"
       /\ events[Len(events)].event_type = "STATUS_CHANGED"

\* the alerts a sweep result S holds beyond the stored ones for ARs other
\* than bad, as <<ar_id, alert_type, target_type>>
AlertsFor(S, bad) ==
  {<<S.alerts[k].ar_id, S.alerts[k].alert_type, S.alerts[k].target_type>> :
     k \in {i \in 1..Len(S.alerts) : i > Len(alerts) /\ S.alerts[i].ar_id # bad}}

\* C34: a sweep in which one enqueue throws still enqueues, for every other
\* AR, the alerts a sweep without the throw enqueues, and still creates the
\* future ARs that sweep creates.
C34_EnqueueFailureIsolated ==
  [][\A fault \in Faults :
       (fault.step = "enqueue" /\ SweepFault(fault)) =>
         LET S == run(Cur, today)
         IN  /\ AlertsFor(S, fault.ar_id)
                  \subseteq {<<alerts'[k].ar_id, alerts'[k].alert_type,
                               alerts'[k].target_type>> : k \in NewAlerts}
             /\ Len(ar_state') = Len(S.ar_state)]_vars

\* C35: an alert whose message the channel accepted is never stored as
\* QUEUED again and its message is not accepted a second time, also when the
\* event store refuses the ALERT_SENT event.
C35_SentNotRequeued ==
  \A id \in AlertIds :
    SendCount(id) >= 1 =>
      /\ alerts[id].status # "QUEUED"
      /\ SendCount(id) = 1

\* C36: no step of a sweep takes an AR out of PAID, also when the payment is
\* verified between two steps of the sweep.
C36_PaidStaysPaid ==
  [][\A a \in ARIds :
       ar_state[a].current_status = "PAID" =>
         ar_state'[a].current_status = "PAID"]_vars

\* the ARs a routine generated: their invoice date is the day of the run,
\* a caller's AR has InvoiceDate
Generated == {a \in ARIds : ar_state[a].invoice_date # InvoiceDate}

\* C38: no two generated ARs have the same billable entity and due date,
\* also when two sweep runs overlap.
C38_OneARPerHomeAndDueDate ==
  \A a, b \in Generated :
    (/\ ar_state[a].home_id = ar_state[b].home_id
     /\ ar_state[a].due_date = ar_state[b].due_date) => a = b

\* C37: the log holds at most one PAYMENT_VERIFIED event per AR, also when
\* two verify-payment commands for the AR overlap.
C37_OnePaymentVerified ==
  \A a \in ARIds :
    Cardinality({i \in 1..Len(events) :
                   /\ events[i].ar_id = a
                   /\ events[i].event_type = "PAYMENT_VERIFIED"}) <= 1

\* C40: for every AR that a verify-payment left PAID there is an AR of the
\* same billable entity due one month after it.
C40_PaidHasNextMonth ==
  \A a \in ARIds :
    ar_state[a].current_status = "PAID" =>
      \E b \in ARIds :
        /\ ar_state[b].home_id = ar_state[a].home_id
        /\ ar_state[b].due_date = addMonths(ar_state[a].due_date, 1)

Terminal(id) == id \in AlertIds /\ alerts[id].status \in {"SENT", "FAILED"}

====
